---- MODULE Spec2Model ----
(***************************************************************************)
(* Model of the reconciliation run of hilan_filler.py: parse_args(), then  *)
(* main() computing the workdays, logging in, navigating and calling       *)
(* fill_all_hours(), which drives the attendance grid of the portal in a   *)
(* status-changing pass (first scan + rescan loop), a value-filling pass,  *)
(* a project retry pass and a save.                                        *)
(*                                                                         *)
(* The portal (the live page) is the environment.  It is modelled by the   *)
(* variables grid, stale, closed, locked and saved:                        *)
(*   - a completed delete / symbol selection is a postback, after which    *)
(*     the row identifiers of every earlier read are invalid (stale);      *)
(*   - a portal call may raise, or the page may close during it; the       *)
(*     number of such events in one run is bounded by MaxFaults;           *)
(*   - a row in `locked` keeps its state whatever is posted for it (the    *)
(*     portal accepts the postback and leaves the day as it was);          *)
(*   - initial_grid is the grid as it was when the fill started.           *)
(*   - shown is the month whose grid the portal shows when the fill        *)
(*     starts: select_month_in_calendar returns normally whether or not    *)
(*     it could switch to the target month.                                *)
(* Variables that only record what the run did (the "did*" sets and the    *)
(* flags below them) are history variables used by the properties.         *)
(***************************************************************************)
EXTENDS Integers, Sequences, FiniteSets, TLC

\* ---------------------------------------------------------------- bounds
NDays == 3          \* rows of the grid: days 1..NDays of the target month
MaxFaults == 1      \* portal calls that raise / page closes, per run

\* ------------------------------------------------------ program constants
\* The loop test written with <=.
RescanCapInclusive == 50 + 1

RescanCap == 50     \* while postback_occurred and _rescan_count < 50

entry_time == "09:00"
exit_time == "18:00"
ProjectCode == "12086"

Days == 1..NDays

VARIABLES
  \* inputs of the run (the parsed command line, the calendar, the date)
  holiday_dates, vacation_days, sick_days, present_dates, present_weekdays,
  project, sick_file, today, present_days, rd_days, rd_file, dry_run,
  first_weekday, num_days, vacation_parts, shown,
  \* the portal
  grid, initial_grid, stale, closed, locked, saved, faults,
  \* main before fill_all_hours
  error, workdays, launched, login_rejected, navigated,
  \* fill_all_hours / main
  pc, rows_info, i, success_count, failure_count, skipped_count,
  postback_occurred, rescan_count, did_postback, retry_rows, exit_code,
  exit_reason,
  \* history of the run
  didDelete, didSelect, selections, didHours, didProject, projCommitted,
  countedFilled, staleUse, capHit, selectOnAbsence, closedSeen, afterClosed,
  unrecorded, didUpload, save_clicks, save_report, modal

inputs == <<holiday_dates, vacation_days, sick_days, present_dates,
            present_weekdays, project, sick_file, today, present_days, rd_days,
            rd_file, dry_run, first_weekday, num_days, vacation_parts, shown,
            locked, initial_grid>>
portal == <<grid, stale, closed, saved, faults>>
prelude == <<error, workdays, launched, login_rejected, navigated>>
engine == <<pc, rows_info, i, success_count, failure_count, skipped_count,
            postback_occurred, rescan_count, did_postback, retry_rows, exit_code,
            exit_reason>>
history == <<didDelete, didSelect, selections, didHours, didProject, projCommitted,
             countedFilled, staleUse, capHit, selectOnAbsence, closedSeen,
             afterClosed, unrecorded, didUpload, save_clicks, save_report, modal>>
main_vars == <<inputs, portal, prelude, engine, history>>

\* Variables of the closer models of single functions: each of them has a
\* specification of its own, and is idle in the others.
VARIABLES
  \* select_workdays_in_calendar
  ds_pc, ds_target, ds_now, ds_workdays, ds_k, ds_clicks,
  \* fill_project_field and its callers in pass 2
  pf_pc, pf_rows, pf_code, pf_i, pf_retry, pf_cur, pf_ret, pf_attempt,
  pf_calls, pf_seen, pf_clicks, pf_closed,
  \* hilan_interactive.py: main, collect_params, edit_params
  sh_pc, sh_params, sh_ret, sh_choice, sh_launched, sh_collections, sh_edited,
  sh_after_edit, sh_field, sh_input_empty

dayselect == <<ds_pc, ds_target, ds_now, ds_workdays, ds_k, ds_clicks>>
projectfill == <<pf_pc, pf_rows, pf_code, pf_i, pf_retry, pf_cur, pf_ret, pf_attempt,
                 pf_calls, pf_seen, pf_clicks, pf_closed>>
shell == <<sh_pc, sh_params, sh_ret, sh_choice, sh_launched, sh_collections, sh_edited,
           sh_after_edit, sh_field, sh_input_empty>>
aside == <<dayselect, projectfill, shell>>

vars == <<main_vars, aside>>

\* Python's date.weekday() of day d of the target month (Mon=0 .. Sun=6);
\* first_weekday is the weekday of day 1.
Weekday(d) == (first_weekday + d - 1) % 7

WeekdayName(w) ==
  CASE w = 0 -> "Mon" [] w = 1 -> "Tue" [] w = 2 -> "Wed" [] w = 3 -> "Thu"
    [] w = 4 -> "Fri" [] w = 5 -> "Sat" [] OTHER -> "Sun"

\* The day name of day d of the target month.
DayName(d) == WeekdayName(Weekday(d))

\* The month the portal shows when the fill starts: "target"; "other_month",
\* the month after the target month, whose rows carry another MM and whose
\* weekdays lie two further (a 30-day target month); "other_year", the same
\* month one year later, whose rows carry the same DD/MM and whose weekdays
\* lie one further.
ShownMonths == {"target", "other_month", "other_year"}

shown_weekday_shift ==
  CASE shown = "other_month" -> 2 [] shown = "other_year" -> 1 [] OTHER -> 0

\* day_name of the row of day d, as the grid shows it.
row_day_name(d) == WeekdayName((Weekday(d) + shown_weekday_shift) % 7)

\* day_name in ("Fri", "Sat")
IsFriSat(d) == row_day_name(d) \in {"Fri", "Sat"}

\* ------------------------------------------------------------ grid rows
\* One row of get_grid_rows_info(): the values the engine reads.  rowIndex
\* and the element ids are not values: they are valid exactly while the
\* snapshot is not stale.
Row(s, e, x, p, sel, inp) ==
  [sym |-> s, entry |-> e, exit |-> x, proj |-> p, hasSel |-> sel, hasIn |-> inp]

Symbols == {"", "0", "15", "2", "5", "6"}
absence_symbols == {"2", "5", "6"}
\* Only the empty symbol taken as harmless.
harmless_symbols_empty_only == {""}

harmless_symbols == {"", "15"}

\* What a deleted day shows on the next read: an unreported row with the
\* selector on "Select" or on the default w.home.
FreshSymbols == {"", "15"}

\* get_workdays(): the loop over day_num, appending the days whose weekday
\* is a workday and that are not holidays.
is_workday_mon_to_fri(weekday) == weekday \in {0, 1, 2, 3, 4}

is_workday(weekday) == weekday \in {6, 0, 1, 2, 3}

RECURSIVE workdays_from(_)
workdays_from(day_num) ==
  IF day_num > num_days THEN <<>>
  ELSE IF ~is_workday(Weekday(day_num)) THEN workdays_from(day_num + 1)
  ELSE IF day_num \in holiday_dates THEN workdays_from(day_num + 1)
  ELSE <<day_num>> \o workdays_from(day_num + 1)

get_workdays == workdays_from(1)

\* workday_dates: the set of the dates of the workdays that main passes to
\* fill_all_hours.
workday_dates == {workdays[k] : k \in 1..Len(workdays)}

\* date_ddmm in workday_dates, for the row of day d: the DD/MM of a row of
\* another month is the DD/MM of no workday.
in_workday_dates(d) == shown # "other_month" /\ d \in workday_dates

has_hours(row) == row.entry # "" \/ row.exit # ""

\* "5" sick day declaration, "6" sick (with certificate).
sick_symbol_below_two == IF Cardinality(sick_days) < 2 THEN "5" ELSE "6"

sick_symbol == IF Cardinality(sick_days) <= 2 THEN "5" ELSE "6"

\* The same choice as the rescan makes it.
sick_symbol_rescan == IF Cardinality(sick_days) <= 2 THEN "5" ELSE "6"

\* parse_args: --present-days numbers (1=Sun .. 5=Thu) to date.weekday().
user_to_python_weekday == (1 :> 6) @@ (2 :> 0) @@ (3 :> 1) @@ (4 :> 2) @@ (5 :> 3)

is_present_day(d) == Weekday(d) \in present_weekdays \/ d \in present_dates

expected_symbol(d) == IF is_present_day(d) THEN "0" ELSE "15"

\* The rescan's own computation of the expected symbol.
expected_symbol_rescan_dates_only(d) == IF d \in present_dates THEN "0" ELSE "15"

expected_symbol_rescan(d) ==
  IF Weekday(d) \in present_weekdays \/ d \in present_dates THEN "0" ELSE "15"

\* Desired state of a day, as the scans decide it.
IsAbsenceDay(d) == d \in vacation_days \/ d \in sick_days
IsAttendanceDay(d) == d \in workday_dates /\ ~IsFriSat(d) /\ ~IsAbsenceDay(d)

\* ------------------------------------------------------------ the portal
\* Outcomes of one portal call (page.evaluate, select_option, click ...).
\* "ok": the call returns; "raise": it raises and the page stays open;
\* "close": the page closes during the call, which raises.  On a closed page
\* every call raises.
CallOutcomesAt(cl, f) ==
  IF cl THEN {"raise"}
  ELSE {"ok"} \cup (IF f > 0 THEN {"raise", "close"} ELSE {})

CallOutcomes == CallOutcomesAt(closed, faults)

FaultsAfterAt(cl, f, o) == IF ~cl /\ o # "ok" THEN f - 1 ELSE f
FaultsAfter(o) == FaultsAfterAt(closed, faults, o)
ClosedAfter(o) == closed \/ o = "close"

\* Delete of day d's report: the day reappears as an unreported row.
PortalDelete(g, d, fresh) ==
  IF d \in locked THEN g
  ELSE [g EXCEPT ![d] = [@ EXCEPT !.sym = fresh, !.entry = "", !.exit = "", !.proj = ""]]

\* Symbol selection posted with the row's fields as the DOM holds them.
PortalSelect(g, d, s, clearHours, clearProject) ==
  IF d \in locked THEN g
  ELSE [g EXCEPT ![d] = [@ EXCEPT !.sym = s,
                                  !.entry = IF clearHours THEN "" ELSE @,
                                  !.exit = IF clearHours THEN "" ELSE @,
                                  !.proj = IF clearProject THEN "" ELSE @]]

PortalHours(g, d) == [g EXCEPT ![d] = [@ EXCEPT !.entry = entry_time, !.exit = exit_time]]

PortalProject(g, d) == [g EXCEPT ![d] = [@ EXCEPT !.proj = project]]

\* --------------------------------------------------------------- Init
\* The inputs of a run: the day sets of the command line, the project, the
\* date of the run, and the grid the portal shows when the fill starts.
\* A day's request ("att": attendance, remote; "present": attendance,
\* office; "vac"; "sick") and its row are drawn together, so that fields a
\* request never reads are not enumerated: day 1 takes every combination,
\* the other workdays a list of representative ones, Fri/Sat and holiday
\* rows the shapes the Fri/Sat test tells apart.
OtherEntry == "08:00"
OtherExit == "17:00"

NoHours == <<"", "">>
InitHours == {NoHours, <<entry_time, exit_time>>, <<OtherEntry, OtherExit>>}

Case(r, row) == [role |-> r, row |-> row]

NoSelectRow == Row("", "", "", "", FALSE, TRUE)
NoInputsRow == Row("15", "", "", "", TRUE, FALSE)

FocusCases ==
  {Case("att", Row(s, h[1], h[2], p, TRUE, TRUE)) :
     s \in {"", "0", "15", "2"}, h \in InitHours, p \in {"", ProjectCode}}
  \cup {Case("att", NoSelectRow), Case("att", NoInputsRow)}
  \cup {Case("present", Row(s, entry_time, exit_time, ProjectCode, TRUE, TRUE)) :
          s \in {"0", "15"}}
  \cup {Case(r, Row(s, h[1], h[2], "", TRUE, TRUE)) :
          r \in {"vac", "sick"}, s \in {"", "15", "2", "5", "6"},
          h \in {NoHours, <<OtherEntry, OtherExit>>}}
  \cup {Case("vac", NoSelectRow), Case("sick", NoSelectRow)}

OtherCases ==
  { Case("att", Row("15", "", "", "", TRUE, TRUE)),
    Case("att", Row("15", entry_time, exit_time, ProjectCode, TRUE, TRUE)),
    Case("att", Row("0", OtherEntry, OtherExit, "", TRUE, TRUE)),
    Case("att", Row("2", "", "", "", TRUE, TRUE)),
    Case("vac", Row("15", OtherEntry, OtherExit, ProjectCode, TRUE, TRUE)),
    Case("vac", Row("2", "", "", "", TRUE, TRUE)),
    Case("vac", NoSelectRow),
    Case("sick", Row("15", "", "", "", TRUE, TRUE)) }

OffRows ==
  { Row("", "", "", "", TRUE, TRUE),
    Row("15", "", "", "", TRUE, TRUE),
    Row("0", OtherEntry, OtherExit, "", TRUE, TRUE),
    Row("", OtherEntry, OtherExit, "", TRUE, TRUE) }

OffCases == {Case(r, row) : r \in {"att", "sick"}, row \in OffRows}

DayCases(d, hol) ==
  IF DayName(d) \in {"Fri", "Sat"} \/ d \in hol THEN OffCases
  ELSE IF d = 1 THEN FocusCases ELSE OtherCases

WorkdaysOf(hol) == {d \in Days : DayName(d) \notin {"Fri", "Sat"} /\ d \notin hol}

\* Days requested on the command line on top of the plan of the rows: they
\* make the day sets overlap, and rd is what the shell passes as --rd-days.
ExtraSets == {{}, {1}, {1, 2}}
Extra(v, s, p, r) == [vac |-> v, sick |-> s, pres |-> p, rd |-> r]
NoExtra == Extra({}, {}, {}, {})
ExtraRequests ==
  {Extra(v, s, p, r) : v \in ExtraSets, s \in ExtraSets, p \in ExtraSets, r \in {{}, {1}}}

\* parse_args, --vacation "a-b,c": range(int(start), int(end) + 1) of every
\* part (a single day c is the part c-c); nothing compares the days with
\* the month.  A part is <<start, end>>.
parse_day_ranges(parts) == UNION {p[1]..p[2] : p \in parts}

\* Parts naming a day that is not in the month, and reversed ranges.
BadParts == {<<0, 0>>, <<NDays + 1, NDays + 1>>, <<2, NDays + 1>>, <<2, 1>>, <<NDays, 1>>}

\* A project code that is a proper substring of ProjectCode.
ShortCode == "1208"

DefaultRows == {Row("15", "", "", "", TRUE, TRUE), Row("", "", "", "", TRUE, TRUE)}

\* restDefault: the rows after day 1 are unreported rows.
InitInputs(extra, restDefault) ==
  \E first \in FocusCases \cup OffCases,
     rest \in [Days \ {1} -> IF restDefault
                             THEN {c \in OtherCases \cup OffCases : c.row \in DefaultRows}
                             ELSE OtherCases \cup OffCases] :
    LET plan == [d \in Days |-> IF d = 1 THEN first ELSE rest[d]] IN
    /\ \A d \in Days : plan[d] \in DayCases(d, holiday_dates)
    \* a Fri/Sat or holiday is requested sick only to make the sick set
    \* larger than two days, when every workday is sick
    /\ \A d \in Days \ WorkdaysOf(holiday_dates) :
         plan[d].role = "sick" =>
           /\ \A w \in WorkdaysOf(holiday_dates) : plan[w].role = "sick"
           /\ \A e \in Days \ WorkdaysOf(holiday_dates) : plan[e].role = "sick"
    \* without a project the project fields of attendance rows are never read
    /\ project = "" =>
         \A d \in Days : plan[d].role \in {"att", "present"} => plan[d].row.proj = ""
    /\ grid = [d \in Days |-> plan[d].row]
    /\ vacation_days = {d \in Days : plan[d].role = "vac"} \cup extra.vac
                        \cup parse_day_ranges(vacation_parts)
    /\ sick_days = {d \in Days : plan[d].role = "sick"} \cup extra.sick
    /\ present_dates = {d \in Days : plan[d].role = "present"} \cup extra.pres
    /\ rd_days = extra.rd

\* The runs against the portal: the month of the grid starts on a Wednesday.
\* One feature at a time is added to the plain runs (a locked day, a
\* holiday, --present-days, --dry-run, overlapping or reserve-duty days, a
\* certificate that is missing or not needed, a --vacation part outside the
\* month or reversed, a portal showing another month, a project code that is
\* part of the stored one), with one date.
Features ==
  {"none", "locked", "holiday", "present_days", "dry_run", "extra", "sick_file",
   "bad_days", "wrong_month", "short_project"}

RunInit ==
  \E feature \in Features :
    /\ first_weekday = 2
    /\ num_days = NDays
    /\ holiday_dates \in (IF feature = "holiday" THEN {{1}, {1, 2}} ELSE {{}})
    /\ locked = (IF feature = "locked" THEN {1} ELSE {})
    /\ project \in (CASE feature = "none" -> {"", ProjectCode}
                      [] feature = "short_project" -> {ShortCode}
                      [] OTHER -> {""})
    /\ vacation_parts \in (IF feature = "bad_days" THEN {{p} : p \in BadParts} ELSE {{}})
    /\ shown \in (IF feature = "wrong_month" THEN ShownMonths \ {"target"} ELSE {"target"})
    /\ today \in (IF feature = "none" THEN {1, NDays} ELSE {NDays})
    /\ present_days \in (IF feature = "present_days" THEN {{4}, {5}} ELSE {{}})
    /\ dry_run = (feature = "dry_run")
    /\ \E extra \in (IF feature = "extra" THEN ExtraRequests \ {NoExtra} ELSE {NoExtra}) :
         InitInputs(extra, feature \notin {"none", "holiday"})
    /\ sick_file = ((Cardinality(sick_days) > 2) # (feature = "sick_file"))
    /\ rd_file = (rd_days # {})

\* Dry runs over whole months: every weekday of day 1, every month length.
MonthLengths == 28..31
CalHolidays == {{}, {1}, {2, 3}, {7, 8, 9, 10}, 1..31}

CalInit ==
  /\ first_weekday \in 0..6
  /\ num_days \in MonthLengths
  /\ holiday_dates \in CalHolidays
  /\ today \in {1, 28}
  /\ dry_run = TRUE
  /\ locked = {} /\ project = "" /\ present_days = {} /\ sick_file = FALSE
  /\ vacation_parts = {} /\ shown = "target"
  /\ vacation_days = {} /\ sick_days = {} /\ present_dates = {}
  /\ rd_days = {} /\ rd_file = FALSE
  /\ grid = [d \in Days |-> Row("", "", "", "", TRUE, TRUE)]

ParserError(k, a, b, days) == [kind |-> k, a |-> a, b |-> b, days |-> days]
NoError == ParserError("", "", "", <<>>)

\* The state of main, of fill_all_hours and of the portal before the run.
EngineInit ==
  /\ present_weekdays = {user_to_python_weekday[n] : n \in present_days}
  /\ initial_grid = grid
  /\ stale = FALSE
  /\ closed = FALSE
  /\ saved = 0
  /\ faults = MaxFaults
  /\ error = NoError
  /\ workdays = <<>>
  /\ launched = FALSE
  /\ login_rejected = FALSE
  /\ navigated = FALSE
  /\ pc = "parse"
  /\ rows_info = <<>>
  /\ i = 0
  /\ success_count = 0
  /\ failure_count = 0
  /\ skipped_count = 0
  /\ postback_occurred = FALSE
  /\ rescan_count = 0
  /\ did_postback = FALSE
  /\ retry_rows = <<>>
  /\ exit_code = -1
  /\ exit_reason = ""
  /\ didDelete = {}
  /\ didSelect = {}
  /\ selections = {}
  /\ didHours = {}
  /\ didProject = {}
  /\ projCommitted = {}
  /\ countedFilled = {}
  /\ staleUse = FALSE
  /\ capHit = FALSE
  /\ selectOnAbsence = FALSE
  /\ closedSeen = FALSE
  /\ afterClosed = FALSE
  /\ unrecorded = FALSE
  /\ didUpload = {}
  /\ save_clicks = 0
  /\ save_report = [outcome |-> "none", level |-> "none"]
  /\ modal = "unchecked"

\* The models of single functions, idle.
DaySelectIdle ==
  /\ ds_pc = "idle" /\ ds_target = <<1, 2026>> /\ ds_now = [month |-> 1, year |-> 2026, day |-> 1]
  /\ ds_workdays = <<>> /\ ds_k = 0 /\ ds_clicks = <<>>

ProjectFillIdle ==
  /\ pf_pc = "idle" /\ pf_rows = <<>> /\ pf_code = <<>> /\ pf_i = 0 /\ pf_retry = <<>>
  /\ pf_cur = 0 /\ pf_ret = "loop" /\ pf_attempt = 0 /\ pf_calls = <<>> /\ pf_seen = <<>>
  /\ pf_clicks = <<>> /\ pf_closed = FALSE

\* params of the shell; a day text is its set of parts, "" the empty set.
Params(vacation, sick, sickf, rd, rdf, present) ==
  [vacation |-> vacation, sick_days |-> sick, sick_file |-> sickf, rd_days |-> rd,
   rd_file |-> rdf, present_dates |-> present]

ShellIdle ==
  /\ sh_pc = "idle" /\ sh_params = Params({}, {}, "", {}, "", {}) /\ sh_ret = "collect"
  /\ sh_choice = "" /\ sh_launched = FALSE /\ sh_collections = 0
  /\ sh_edited = Params({}, {}, "", {}, "", {}) /\ sh_after_edit = FALSE
  /\ sh_field = "none" /\ sh_input_empty = FALSE

Init ==
  /\ (RunInit \/ CalInit)
  /\ EngineInit
  /\ DaySelectIdle
  /\ ProjectFillIdle
  /\ ShellIdle

\* The run of main, idle: one dry run that has not started.
MainIdle ==
  /\ first_weekday = 0 /\ num_days = NDays /\ holiday_dates = {} /\ today = 1
  /\ dry_run = TRUE
  /\ locked = {} /\ project = "" /\ present_days = {} /\ sick_file = FALSE
  /\ vacation_parts = {} /\ shown = "target"
  /\ vacation_days = {} /\ sick_days = {} /\ present_dates = {}
  /\ rd_days = {} /\ rd_file = FALSE
  /\ grid = [d \in Days |-> Row("", "", "", "", TRUE, TRUE)]
  /\ EngineInit

\* ------------------------------------------------------------ parse_args
\* sorted(overlap): the days in ascending order.
RECURSIVE sorted(_)
sorted(S) ==
  IF S = {} THEN <<>>
  ELSE LET m == CHOOSE x \in S : \A y \in S : x <= y
       IN <<m>> \o sorted(S \ {m})

\* The first parser.error() that parse_args raises for the command line,
\* or NoError.  --rd-days / --rd-file are not arguments of the parser:
\* argparse rejects them as unrecognized before any validation runs.
parse_error ==
  IF rd_days # {} \/ rd_file
  THEN ParserError("unrecognized arguments", "--rd-days", "--rd-file", <<>>)
  ELSE IF Cardinality(sick_days) > 2 /\ ~sick_file
  THEN ParserError("required", "--sick-file", "--sick-days", <<>>)
  ELSE IF vacation_days # {} /\ sick_days # {} /\ vacation_days \cap sick_days # {}
  THEN ParserError("overlap", "--vacation", "--sick-days",
                   sorted(vacation_days \cap sick_days))
  ELSE IF present_dates # {} /\ vacation_days # {}
          /\ present_dates \cap vacation_days # {}
  THEN ParserError("overlap", "--present-dates", "--vacation",
                   sorted(present_dates \cap vacation_days))
  ELSE IF present_dates # {} /\ sick_days # {} /\ present_dates \cap sick_days # {}
  THEN ParserError("overlap", "--present-dates", "--sick-days",
                   sorted(present_dates \cap sick_days))
  ELSE NoError

\* parser.error() prints the message and exits with status 2.
ParseArgs ==
  /\ pc = "parse"
  /\ error' = parse_error
  /\ IF parse_error = NoError
     THEN /\ pc' = "main"
          /\ UNCHANGED <<exit_code, exit_reason>>
     ELSE /\ pc' = "exited"
          /\ exit_code' = 2
          /\ exit_reason' = "usage"
  /\ UNCHANGED <<inputs, aside, portal, workdays, launched, login_rejected, navigated,
                 rows_info, i, success_count, failure_count, skipped_count,
                 postback_occurred, rescan_count, did_postback, retry_rows, history>>

\* ------------------------------------------------- main, up to the grid
\* The exit status of main's exception handlers.
main_exit_code_runtime_ok(exc) == IF exc = "RuntimeError" THEN 0 ELSE 1

main_exit_code(exc) ==
  CASE exc = "RuntimeError" -> 1
    [] exc = "PlaywrightTimeoutError" -> 1
    [] OTHER -> 1

\* get_workdays, the "no workdays" and --dry-run exits, the browser launch.
MainStart ==
  /\ pc = "main"
  /\ workdays' = get_workdays
  /\ IF get_workdays = <<>>
     THEN /\ pc' = "exited" /\ exit_code' = 0 /\ exit_reason' = "no_workdays"
          /\ UNCHANGED launched
     ELSE IF dry_run
     THEN /\ pc' = "exited" /\ exit_code' = 0 /\ exit_reason' = "dry_run"
          /\ UNCHANGED launched
     ELSE /\ pc' = "login" /\ launched' = TRUE
          /\ UNCHANGED <<exit_code, exit_reason>>
  /\ UNCHANGED <<inputs, aside, portal, error, login_rejected, navigated, rows_info, i,
                 success_count, failure_count, skipped_count, postback_occurred,
                 rescan_count, did_postback, retry_rows, history>>

\* login(): "rejected" the URL still holds "login" after the submit
\* (RuntimeError); "timeout" page.goto times out; "error" anything else.
LoginOutcomes == {"ok", "rejected", "timeout", "error"}

exception_of(o) ==
  CASE o = "rejected" -> "RuntimeError"
    [] o = "timeout" -> "PlaywrightTimeoutError"
    [] OTHER -> "Exception"

Login ==
  /\ pc = "login"
  /\ \E o \in LoginOutcomes :
       /\ login_rejected' = (o = "rejected")
       /\ IF o = "ok"
          THEN /\ pc' = "navigate"
               /\ UNCHANGED <<exit_code, exit_reason>>
          ELSE /\ pc' = "exited"
               /\ exit_code' = main_exit_code(exception_of(o))
               /\ exit_reason' = exception_of(o)
  /\ UNCHANGED <<inputs, aside, portal, error, workdays, launched, navigated, rows_info, i,
                 success_count, failure_count, skipped_count, postback_occurred,
                 rescan_count, did_postback, retry_rows, history>>

\* navigate_to_attendance, select_month_in_calendar and
\* select_workdays_in_calendar: none of them changes the grid.
Navigate ==
  /\ pc = "navigate"
  /\ navigated' = TRUE
  /\ \E o \in {"ok", "timeout", "error"} :
       IF o = "ok"
       THEN /\ pc' = "start"
            /\ UNCHANGED <<exit_code, exit_reason>>
       ELSE /\ pc' = "exited"
            /\ exit_code' = main_exit_code(exception_of(o))
            /\ exit_reason' = exception_of(o)
  /\ UNCHANGED <<inputs, aside, portal, error, workdays, launched, login_rejected, rows_info,
                 i, success_count, failure_count, skipped_count, postback_occurred,
                 rescan_count, did_postback, retry_rows, history>>

\* ------------------------------------------------- fill_all_hours: start
\* get_grid_rows_info(): a read of the grid.  "empty": the page shows no
\* rows (it did not load).  A read that raises is not caught in
\* fill_all_hours and reaches main's handlers.
ReadOutcomes ==
  IF closed THEN {"raise"}
  ELSE {"ok"} \cup (IF faults > 0 THEN {"empty", "raise"} ELSE {})

ReadGrid ==
  /\ pc = "start"
  /\ \E o \in ReadOutcomes :
       /\ faults' = FaultsAfter(o)
       /\ CASE o = "ok" ->
                 /\ rows_info' = grid /\ stale' = FALSE
                 /\ pc' = "scan1" /\ i' = 1
                 /\ UNCHANGED <<success_count, failure_count, exit_code, exit_reason>>
            [] o = "empty" ->
                 /\ pc' = "returned"
                 /\ success_count' = 0
                 /\ failure_count' = Len(workdays)
                 /\ UNCHANGED <<rows_info, stale, i, exit_code, exit_reason>>
            [] OTHER ->
                 /\ pc' = "exited" /\ exit_code' = main_exit_code("Exception")
                 /\ exit_reason' = "Exception"
                 /\ UNCHANGED <<rows_info, stale, i, success_count, failure_count>>
  /\ UNCHANGED <<inputs, aside, prelude, grid, closed, saved, skipped_count, postback_occurred,
                 rescan_count, did_postback, retry_rows, history>>

\* The modal checks around the state-changing actions.  modal is
\* "unchecked" until the run has called dismiss_modal or issued an action
\* (every action is followed by dismiss_modal or by the confirmation of its
\* dialog), and "violated" once an action was issued with no modal check
\* made before it.  checkedBefore: the action's code calls dismiss_modal
\* before it acts.
modal_after(m, checkedBefore) ==
  IF m = "violated" \/ (m = "unchecked" /\ ~checkedBefore) THEN "violated" ELSE "checked"

\* `continue` of a scan: the next row, or the statement after the loop.
Continue(endpc) ==
  /\ i' = i + 1
  /\ pc' = IF i + 1 > NDays THEN endpc ELSE pc

\* ------------------------------------------ pass 1, first scan (one row)
\* Fri/Sat row: deleted when it has a symbol and (hours or a non-harmless
\* symbol); a delete that raises is only logged.
Scan1FriSat ==
  /\ pc = "scan1" /\ i \in Days /\ IsFriSat(i)
  /\ LET row == rows_info[i] IN
     IF row.sym # "" /\ (has_hours(row) \/ row.sym \notin harmless_symbols)
     THEN \E o \in CallOutcomes, fresh \in FreshSymbols :
            /\ faults' = FaultsAfter(o) /\ closed' = ClosedAfter(o)
            /\ staleUse' = (staleUse \/ stale)
            /\ IF o = "ok"
               THEN /\ grid' = PortalDelete(grid, i, fresh)
                    /\ stale' = TRUE
                    /\ didDelete' = didDelete \cup {i}
                    /\ success_count' = success_count + 1
                    /\ postback_occurred' = TRUE
                    /\ pc' = "loop" /\ i' = i
                    /\ UNCHANGED unrecorded
               ELSE /\ unrecorded' = TRUE
                    /\ Continue("loop")
                    /\ UNCHANGED <<grid, stale, didDelete, success_count, postback_occurred>>
     ELSE /\ Continue("loop")
          /\ UNCHANGED <<faults, closed, staleUse, grid, stale, didDelete,
                         success_count, postback_occurred, unrecorded>>
  /\ modal' = IF rows_info[i].sym # ""
                   /\ (has_hours(rows_info[i]) \/ rows_info[i].sym \notin harmless_symbols)
                THEN modal_after(modal, FALSE) ELSE modal
  /\ UNCHANGED <<inputs, aside, prelude, didUpload, save_clicks, save_report, saved, rows_info, failure_count, skipped_count, rescan_count,
                 did_postback, retry_rows, exit_code, exit_reason, didSelect, selections, didHours, didProject, projCommitted, countedFilled,
                 capHit, selectOnAbsence, closedSeen, afterClosed>>

\* Row of a day that is not a workday to fill (a holiday).
Scan1NotWorkday ==
  /\ pc = "scan1" /\ i \in Days /\ ~IsFriSat(i) /\ ~in_workday_dates(i)
  /\ Continue("loop")
  /\ UNCHANGED <<inputs, aside, prelude, portal, rows_info, success_count, failure_count, skipped_count,
                 postback_occurred, rescan_count, did_postback, retry_rows, exit_code, exit_reason,
                 history>>

\* Vacation or sick day: select the absence symbol `want` unless already set.
\* The first scan clears hours and project before selecting, counts a
\* raise and a missing selector as failures, and uploads the certificate
\* after a sick ("6") selection, by the row index it read before it.
Scan1Absence(want, upload) ==
  LET row == rows_info[i] IN
  IF row.sym = want /\ ~has_hours(row)
  THEN /\ skipped_count' = skipped_count + 1
       /\ Continue("loop")
       /\ UNCHANGED <<faults, closed, staleUse, grid, stale, didSelect, selections, success_count,
                      failure_count, postback_occurred, unrecorded, didUpload>>
  ELSE IF row.hasSel
  THEN \E o \in CallOutcomes :
         /\ faults' = FaultsAfter(o) /\ closed' = ClosedAfter(o)
         /\ IF o = "ok"
            THEN /\ grid' = PortalSelect(grid, i, want, TRUE, TRUE)
                 /\ stale' = TRUE
                 /\ staleUse' = (staleUse \/ stale \/ upload)
                 /\ didSelect' = didSelect \cup {i}
                 /\ selections' = selections \cup {<<i, want, "scan1">>}
                 /\ didUpload' = IF upload THEN didUpload \cup {i} ELSE didUpload
                 /\ success_count' = success_count + 1
                 /\ postback_occurred' = TRUE
                 /\ pc' = "loop" /\ i' = i
                 /\ UNCHANGED <<failure_count, skipped_count>>
            ELSE /\ failure_count' = failure_count + 1
                 /\ staleUse' = (staleUse \/ stale)
                 /\ Continue("loop")
                 /\ UNCHANGED <<grid, stale, didSelect, selections, success_count,
                                postback_occurred, skipped_count, didUpload>>
         /\ UNCHANGED unrecorded
  ELSE /\ failure_count' = failure_count + 1
       /\ Continue("loop")
       /\ UNCHANGED <<faults, closed, staleUse, grid, stale, didSelect, selections, success_count,
                      skipped_count, postback_occurred, unrecorded, didUpload>>

Scan1Vacation ==
  /\ pc = "scan1" /\ i \in Days /\ ~IsFriSat(i) /\ in_workday_dates(i)
  /\ i \in vacation_days
  /\ Scan1Absence("2", FALSE)
  /\ modal' = IF ~(rows_info[i].sym = "2" /\ ~has_hours(rows_info[i])) /\ rows_info[i].hasSel
                THEN modal_after(modal, TRUE) ELSE modal
  /\ UNCHANGED <<inputs, aside, prelude, save_clicks, save_report, saved, rows_info, rescan_count, did_postback, retry_rows,
                 exit_code, exit_reason, didDelete, didHours, didProject, projCommitted, countedFilled, capHit, selectOnAbsence,
                 closedSeen, afterClosed>>

Scan1Sick ==
  /\ pc = "scan1" /\ i \in Days /\ ~IsFriSat(i) /\ in_workday_dates(i)
  /\ i \notin vacation_days /\ i \in sick_days
  /\ Scan1Absence(sick_symbol, sick_symbol = "6" /\ sick_file)
  /\ modal' = IF ~(rows_info[i].sym = sick_symbol /\ ~has_hours(rows_info[i])) /\ rows_info[i].hasSel
                THEN modal_after(modal, TRUE) ELSE modal
  /\ UNCHANGED <<inputs, aside, prelude, save_clicks, save_report, saved, rows_info, rescan_count, did_postback, retry_rows,
                 exit_code, exit_reason, didDelete, didHours, didProject, projCommitted, countedFilled, capHit, selectOnAbsence,
                 closedSeen, afterClosed>>

\* Attendance day: STEP 1 deletes a row showing an absence symbol, `elif`
\* STEP 2 selects presence / w.home when a non-empty symbol differs.  A
\* raise in either is only logged.
Scan1Symbol ==
  /\ pc = "scan1" /\ i \in Days /\ ~IsFriSat(i) /\ in_workday_dates(i)
  /\ i \notin vacation_days /\ i \notin sick_days
  /\ LET row == rows_info[i] IN
     IF row.hasSel /\ row.sym \in absence_symbols
     THEN \E o \in CallOutcomes, fresh \in FreshSymbols :
            /\ faults' = FaultsAfter(o) /\ closed' = ClosedAfter(o)
            /\ staleUse' = (staleUse \/ stale)
            /\ IF o = "ok"
               THEN /\ grid' = PortalDelete(grid, i, fresh)
                    /\ stale' = TRUE
                    /\ didDelete' = didDelete \cup {i}
                    /\ success_count' = success_count + 1
                    /\ postback_occurred' = TRUE
                    /\ pc' = "loop" /\ i' = i
                    /\ UNCHANGED unrecorded
               ELSE /\ unrecorded' = TRUE
                    /\ Continue("loop")
                    /\ UNCHANGED <<grid, stale, didDelete, success_count, postback_occurred>>
            /\ UNCHANGED <<didSelect, selections, selectOnAbsence>>
     ELSE IF row.hasSel /\ row.sym # "" /\ row.sym # expected_symbol(i)
     THEN \E o \in CallOutcomes :
            /\ faults' = FaultsAfter(o) /\ closed' = ClosedAfter(o)
            /\ staleUse' = (staleUse \/ stale)
            /\ IF o = "ok"
               THEN /\ grid' = PortalSelect(grid, i, expected_symbol(i), FALSE, FALSE)
                    /\ stale' = TRUE
                    /\ didSelect' = didSelect \cup {i}
                    /\ selections' = selections \cup {<<i, expected_symbol(i), "scan1">>}
                    /\ selectOnAbsence' = (selectOnAbsence \/ grid[i].sym \in absence_symbols)
                    /\ success_count' = success_count + 1
                    /\ postback_occurred' = TRUE
                    /\ pc' = "loop" /\ i' = i
                    /\ UNCHANGED unrecorded
               ELSE /\ unrecorded' = TRUE
                    /\ Continue("loop")
                    /\ UNCHANGED <<grid, stale, didSelect, selections, selectOnAbsence, success_count,
                                   postback_occurred>>
            /\ UNCHANGED didDelete
     ELSE /\ Continue("loop")
          /\ UNCHANGED <<faults, closed, staleUse, grid, stale, didDelete, didSelect, selections,
                         selectOnAbsence, success_count, postback_occurred, unrecorded>>
  /\ modal' = IF rows_info[i].hasSel /\ rows_info[i].sym \in absence_symbols
                THEN modal_after(modal, FALSE)
                ELSE IF rows_info[i].hasSel /\ rows_info[i].sym # ""
                        /\ rows_info[i].sym # expected_symbol(i)
                THEN modal_after(modal, TRUE) ELSE modal
  /\ UNCHANGED <<inputs, aside, prelude, didUpload, save_clicks, save_report, saved, rows_info, failure_count, skipped_count, rescan_count,
                 did_postback, retry_rows, exit_code, exit_reason, didHours, didProject, projCommitted, countedFilled, capHit,
                 closedSeen, afterClosed>>

\* ------------------------------------------------ pass 1, the rescan loop
\* The `while` test, and the re-read that opens a rescan.  When the test
\* fails with postback_occurred still set, the cap ended the loop.
RescanLoop ==
  /\ pc = "loop"
  /\ IF postback_occurred /\ rescan_count < RescanCap
     THEN /\ rescan_count' = rescan_count + 1
          /\ \E o \in ReadOutcomes :
               /\ faults' = FaultsAfter(o)
               /\ CASE o = "ok" ->
                         /\ rows_info' = grid /\ stale' = FALSE
                         /\ did_postback' = FALSE
                         /\ pc' = "rescan" /\ i' = 1
                         /\ UNCHANGED <<exit_code, exit_reason>>
                    [] o = "empty" ->
                         /\ pc' = "returned"
                         /\ UNCHANGED <<rows_info, stale, did_postback, i, exit_code, exit_reason>>
                    [] OTHER ->
                         /\ pc' = "exited" /\ exit_code' = main_exit_code("Exception")
                 /\ exit_reason' = "Exception"
                         /\ UNCHANGED <<rows_info, stale, did_postback, i>>
          /\ UNCHANGED capHit
     ELSE /\ pc' = "final"
          /\ capHit' = (capHit \/ postback_occurred)
          /\ UNCHANGED <<rescan_count, faults, rows_info, stale, did_postback, i, exit_code, exit_reason>>
  /\ UNCHANGED <<inputs, aside, prelude, modal, didUpload, save_clicks, save_report, grid, closed, saved, success_count, failure_count, skipped_count,
                 postback_occurred, retry_rows, didDelete, didSelect, selections, didHours,
                 didProject, projCommitted, countedFilled, staleUse, selectOnAbsence, closedSeen, afterClosed,
                 unrecorded>>

\* Fri/Sat rows and rows of other days are skipped in a rescan.
RescanSkip ==
  /\ pc = "rescan" /\ i \in Days /\ (IsFriSat(i) \/ ~in_workday_dates(i))
  /\ Continue("final")
  /\ UNCHANGED <<inputs, aside, prelude, portal, rows_info, success_count, failure_count, skipped_count,
                 postback_occurred, rescan_count, did_postback, retry_rows, exit_code, exit_reason,
                 history>>

\* Vacation or sick day in a rescan: only the hours are cleared, nothing is
\* uploaded, and neither a raise nor a missing selector is counted.
RescanAbsence(want) ==
  LET row == rows_info[i] IN
  IF row.sym = want /\ ~has_hours(row)
  THEN /\ Continue("final")
       /\ UNCHANGED <<faults, closed, staleUse, grid, stale, didSelect, selections, success_count,
                      did_postback, unrecorded>>
  ELSE IF row.hasSel
  THEN \E o \in CallOutcomes :
         /\ faults' = FaultsAfter(o) /\ closed' = ClosedAfter(o)
         /\ staleUse' = (staleUse \/ stale)
         /\ IF o = "ok"
            THEN /\ grid' = PortalSelect(grid, i, want, TRUE, FALSE)
                 /\ stale' = TRUE
                 /\ didSelect' = didSelect \cup {i}
                 /\ selections' = selections \cup {<<i, want, "rescan">>}
                 /\ success_count' = success_count + 1
                 /\ did_postback' = TRUE
                 /\ pc' = "loop" /\ i' = i
                 /\ UNCHANGED unrecorded
            ELSE /\ unrecorded' = TRUE
                 /\ Continue("final")
                 /\ UNCHANGED <<grid, stale, didSelect, selections, success_count, did_postback>>
  ELSE /\ unrecorded' = TRUE
       /\ Continue("final")
       /\ UNCHANGED <<faults, closed, staleUse, grid, stale, didSelect, selections, success_count,
                      did_postback>>

RescanVacation ==
  /\ pc = "rescan" /\ i \in Days /\ ~IsFriSat(i) /\ in_workday_dates(i)
  /\ i \in vacation_days
  /\ RescanAbsence("2")
  /\ modal' = IF ~(rows_info[i].sym = "2" /\ ~has_hours(rows_info[i])) /\ rows_info[i].hasSel
                THEN modal_after(modal, TRUE) ELSE modal
  /\ UNCHANGED <<inputs, aside, prelude, didUpload, save_clicks, save_report, saved, rows_info, failure_count, skipped_count,
                 postback_occurred, rescan_count, retry_rows, exit_code, exit_reason, didDelete,
                 didHours, didProject, projCommitted, countedFilled, capHit, selectOnAbsence, closedSeen, afterClosed>>

RescanSick ==
  /\ pc = "rescan" /\ i \in Days /\ ~IsFriSat(i) /\ in_workday_dates(i)
  /\ i \notin vacation_days /\ i \in sick_days
  /\ RescanAbsence(sick_symbol_rescan)
  /\ modal' = IF ~(rows_info[i].sym = sick_symbol_rescan /\ ~has_hours(rows_info[i])) /\ rows_info[i].hasSel
                THEN modal_after(modal, TRUE) ELSE modal
  /\ UNCHANGED <<inputs, aside, prelude, didUpload, save_clicks, save_report, saved, rows_info, failure_count, skipped_count,
                 postback_occurred, rescan_count, retry_rows, exit_code, exit_reason, didDelete,
                 didHours, didProject, projCommitted, countedFilled, capHit, selectOnAbsence, closedSeen, afterClosed>>

\* Attendance day in a rescan: the delete of an absence row and the symbol
\* change are two successive `if`s, so a delete that raises falls through
\* to the symbol change of the same row.
RescanSymbol ==
  /\ pc = "rescan" /\ i \in Days /\ ~IsFriSat(i) /\ in_workday_dates(i)
  /\ i \notin vacation_days /\ i \notin sick_days
  /\ LET row == rows_info[i]
         tryDelete == row.hasSel /\ row.sym \in absence_symbols
         trySelect == row.hasSel /\ row.sym # "" /\ row.sym # expected_symbol_rescan(i)
     IN
     \E o1 \in (IF tryDelete THEN CallOutcomes ELSE {"none"}), fresh \in FreshSymbols :
       LET cl1 == IF tryDelete THEN ClosedAfter(o1) ELSE closed
           f1 == IF tryDelete THEN FaultsAfter(o1) ELSE faults
       IN
       IF o1 = "ok"
       THEN /\ grid' = PortalDelete(grid, i, fresh)
            /\ stale' = TRUE
            /\ staleUse' = (staleUse \/ stale)
            /\ didDelete' = didDelete \cup {i}
            /\ success_count' = success_count + 1
            /\ did_postback' = TRUE
            /\ pc' = "loop" /\ i' = i
            /\ UNCHANGED <<faults, closed, didSelect, selections, selectOnAbsence, unrecorded>>
       ELSE IF trySelect
       THEN \E o2 \in CallOutcomesAt(cl1, f1) :
              /\ faults' = FaultsAfterAt(cl1, f1, o2)
              /\ closed' = (cl1 \/ o2 = "close")
              /\ staleUse' = (staleUse \/ stale)
              /\ IF o2 = "ok"
                 THEN /\ grid' = PortalSelect(grid, i, expected_symbol_rescan(i), FALSE, FALSE)
                      /\ stale' = TRUE
                      /\ didSelect' = didSelect \cup {i}
                      /\ selections' =
                           selections \cup {<<i, expected_symbol_rescan(i), "rescan">>}
                      /\ selectOnAbsence' =
                           (selectOnAbsence \/ grid[i].sym \in absence_symbols)
                      /\ success_count' = success_count + 1
                      /\ did_postback' = TRUE
                      /\ pc' = "loop" /\ i' = i
                      /\ unrecorded' = (unrecorded \/ tryDelete)
                 ELSE /\ unrecorded' = TRUE
                      /\ Continue("final")
                      /\ UNCHANGED <<grid, stale, didSelect, selections, selectOnAbsence,
                                     success_count, did_postback>>
              /\ UNCHANGED didDelete
       ELSE /\ faults' = f1 /\ closed' = cl1
            /\ unrecorded' = (unrecorded \/ tryDelete)
            /\ Continue("final")
            /\ UNCHANGED <<grid, stale, staleUse, didDelete, didSelect, selections, selectOnAbsence,
                           success_count, did_postback>>
  /\ modal' = IF rows_info[i].hasSel /\ rows_info[i].sym \in absence_symbols
                THEN modal_after(modal, FALSE)
                ELSE IF rows_info[i].hasSel /\ rows_info[i].sym # ""
                        /\ rows_info[i].sym # expected_symbol_rescan(i)
                THEN modal_after(modal, TRUE) ELSE modal
  /\ UNCHANGED <<inputs, aside, prelude, didUpload, save_clicks, save_report, saved, rows_info, failure_count, skipped_count,
                 postback_occurred, rescan_count, retry_rows, exit_code, exit_reason, didHours,
                 didProject, projCommitted, countedFilled, capHit, closedSeen, afterClosed>>

\* "Final re-read for Pass 2", made only if a postback occurred.
FinalReread ==
  /\ pc = "final"
  /\ IF postback_occurred
     THEN \E o \in ReadOutcomes :
            /\ faults' = FaultsAfter(o)
            /\ CASE o = "ok" ->
                      /\ rows_info' = grid /\ stale' = FALSE
                      /\ pc' = "pass2" /\ i' = 1
                      /\ UNCHANGED <<exit_code, exit_reason>>
                 [] o = "empty" ->
                      /\ pc' = "returned"
                      /\ UNCHANGED <<rows_info, stale, i, exit_code, exit_reason>>
                 [] OTHER ->
                      /\ pc' = "exited" /\ exit_code' = main_exit_code("Exception")
                 /\ exit_reason' = "Exception"
                      /\ UNCHANGED <<rows_info, stale, i>>
     ELSE /\ pc' = "pass2" /\ i' = 1
          /\ UNCHANGED <<faults, rows_info, stale, exit_code, exit_reason>>
  /\ UNCHANGED <<inputs, aside, prelude, grid, closed, saved, success_count, failure_count, skipped_count,
                 postback_occurred, rescan_count, did_postback, retry_rows, history>>

\* --------------------------------------- pass 2: fill hours and projects
is_future_day(d) == d > today

hours_correct(row) == row.entry = entry_time /\ row.exit = exit_time

\* hours_need_fill without the future-day exclusion.
hours_need_fill_any_day(row, d) == ~hours_correct(row)

hours_need_fill(row, d) == ~hours_correct(row) /\ ~is_future_day(d)

\* `a in b` of Python on the modelled values: the empty string is in every
\* string, a string is in itself, and ShortCode is in ProjectCode.
Contains(a, b) == a = "" \/ a = b \/ (a = ShortCode /\ b = ProjectCode)

\* project_already_set that never recognises the stored project.
project_never_set(row) == FALSE

project_already_set(row) == row.proj # "" /\ Contains(project, row.proj)

project_needs_fill(row) == project # "" /\ ~project_already_set(row)

has_hours_now(row, d) == row.entry # "" \/ hours_need_fill(row, d)

\* Outcomes of fill_project_field(), which never raises: "ok" it returns
\* True; "fallback" the autocomplete failed, the value was written by JS
\* and it returns False; "raise"/"close" a call raised and it returns False.
ProjectOutcomesAt(cl, f) ==
  IF cl THEN {"raise"}
  ELSE {"ok"} \cup (IF f > 0 THEN {"fallback", "close"} ELSE {})

Pass2Eligible(d) ==
  /\ ~IsFriSat(d) /\ in_workday_dates(d)
  /\ d \notin vacation_days /\ d \notin sick_days

Pass2Skip ==
  /\ pc = "pass2" /\ i \in Days /\ ~Pass2Eligible(i)
  /\ Continue("retry")
  /\ UNCHANGED <<inputs, aside, prelude, portal, rows_info, success_count, failure_count, skipped_count,
                 postback_occurred, rescan_count, did_postback, retry_rows, exit_code, exit_reason,
                 history>>

\* page.is_closed() before the row: stop the fill loop.
Pass2Closed ==
  /\ pc = "pass2" /\ i \in Days /\ Pass2Eligible(i)
  /\ closed
  /\ closedSeen' = TRUE
  /\ pc' = "retry"
  /\ UNCHANGED <<inputs, aside, prelude, modal, didUpload, save_clicks, save_report, portal, rows_info, i, success_count, failure_count,
                 skipped_count, postback_occurred, rescan_count, did_postback,
                 retry_rows, exit_code, exit_reason, didDelete, didSelect, selections, didHours, didProject, projCommitted, countedFilled,
                 staleUse, capHit, selectOnAbsence, afterClosed, unrecorded>>

Pass2Row ==
  /\ pc = "pass2" /\ i \in Days /\ Pass2Eligible(i)
  /\ ~closed
  /\ LET row == rows_info[i]
         fillHours == hours_need_fill(row, i)
         fillProject == project # "" /\ project_needs_fill(row) /\ has_hours_now(row, i)
     IN
     IF ~row.hasIn \/ (~hours_need_fill(row, i) /\ ~project_needs_fill(row))
     THEN /\ skipped_count' = skipped_count + 1
          /\ Continue("retry")
          /\ UNCHANGED <<grid, closed, faults, success_count, failure_count, retry_rows,
                         didHours, didProject, projCommitted, countedFilled, staleUse, closedSeen>>
     ELSE \E o1 \in (IF fillHours THEN CallOutcomes ELSE {"none"}) :
            LET cl1 == IF fillHours THEN ClosedAfter(o1) ELSE closed
                f1 == IF fillHours THEN FaultsAfter(o1) ELSE faults
                g1 == IF o1 = "ok" THEN PortalHours(grid, i) ELSE grid
            IN
            IF o1 \in {"raise", "close"}
            THEN \* except: failure_count += 1; break if the page is closed
                 /\ failure_count' = failure_count + 1
                 /\ faults' = f1 /\ closed' = cl1
                 /\ closedSeen' = (closedSeen \/ cl1)
                 /\ staleUse' = (staleUse \/ stale)
                 /\ IF cl1 THEN pc' = "retry" /\ i' = i ELSE Continue("retry")
                 /\ UNCHANGED <<grid, success_count, skipped_count, retry_rows,
                                didHours, didProject, projCommitted, countedFilled>>
            ELSE \E o2 \in (IF fillProject THEN ProjectOutcomesAt(cl1, f1) ELSE {"none"}) :
                   /\ faults' = IF fillProject THEN FaultsAfterAt(cl1, f1, o2) ELSE f1
                   /\ closed' = (cl1 \/ o2 = "close")
                   /\ grid' = IF o2 \in {"ok", "fallback"} THEN PortalProject(g1, i) ELSE g1
                   /\ retry_rows' = IF fillProject /\ o2 # "ok"
                                    THEN Append(retry_rows, i) ELSE retry_rows
                   /\ didHours' = IF fillHours THEN didHours \cup {i} ELSE didHours
                   /\ didProject' = IF fillProject THEN didProject \cup {i} ELSE didProject
                   /\ projCommitted' = IF o2 = "ok" THEN projCommitted \cup {i}
                                       ELSE projCommitted
                   /\ countedFilled' = countedFilled \cup {i}
                   /\ staleUse' = (staleUse \/ stale)
                   /\ success_count' = success_count + 1
                   /\ Continue("retry")
                   /\ UNCHANGED <<failure_count, skipped_count, closedSeen>>
  /\ modal' = IF ~rows_info[i].hasIn
                   \/ (~hours_need_fill(rows_info[i], i) /\ ~project_needs_fill(rows_info[i]))
                THEN modal ELSE modal_after(modal, TRUE)
  /\ UNCHANGED <<inputs, aside, prelude, didUpload, save_clicks, save_report, stale, saved, rows_info, postback_occurred, rescan_count,
                 did_postback, exit_code, exit_reason, didDelete, didSelect, selections, capHit, selectOnAbsence,
                 afterClosed, unrecorded>>

\* Retry of fill_project_field for the rows that returned False.
RetryRow ==
  /\ pc = "retry" /\ retry_rows # <<>> /\ project # ""
  /\ LET d == Head(retry_rows) IN
     \E o \in ProjectOutcomesAt(closed, faults) :
       /\ faults' = FaultsAfter(o)
       /\ closed' = ClosedAfter(o)
       /\ grid' = IF o \in {"ok", "fallback"} THEN PortalProject(grid, d) ELSE grid
       /\ didProject' = didProject \cup {d}
       /\ projCommitted' = IF o = "ok" THEN projCommitted \cup {d} ELSE projCommitted
  /\ retry_rows' = Tail(retry_rows)
  /\ staleUse' = (staleUse \/ stale)
  /\ afterClosed' = (afterClosed \/ closedSeen)
  /\ modal' = modal_after(modal, TRUE)
  /\ UNCHANGED <<inputs, aside, prelude, didUpload, save_clicks, save_report, stale, saved, pc, rows_info, i, success_count, failure_count,
                 skipped_count, postback_occurred, rescan_count, did_postback, exit_code, exit_reason,
                 didDelete, didSelect, selections, didHours, countedFilled, capHit,
                 selectOnAbsence, closedSeen, unrecorded>>

\* "Save all changes": only if success_count > 0 and the page is open.
\* Outcomes of the save block: "ok" the button (or the alternative one) is
\* clicked and the page shows no message; "messages" it is clicked and the
\* page shows validation messages; "raise"/"close" the click raises;
\* "no_button" neither selector finds a button.
SaveOutcomes ==
  {"ok"} \cup (IF faults > 0 THEN {"messages", "raise", "close", "no_button"} ELSE {})

\* The level of the log line that reports the outcome.
save_level(o) ==
  CASE o = "ok" -> "info" [] o = "messages" -> "warning" [] OTHER -> "error"

\* A save block that is entered again after an outcome other than "ok".
after_save_again(o) == IF o = "ok" THEN "returned" ELSE "retry"

\* After the save block: `return success_count, failure_count`.
after_save(o) == "returned"

Save ==
  /\ pc = "retry" /\ retry_rows = <<>>
  /\ IF success_count > 0 /\ ~closed
     THEN \E o \in SaveOutcomes :
            /\ faults' = faults - (IF o = "ok" THEN 0 ELSE 1)
            /\ closed' = ClosedAfter(o)
            /\ saved' = IF o = "ok" THEN saved + 1 ELSE saved
            /\ save_clicks' = IF o = "no_button" THEN save_clicks ELSE save_clicks + 1
            /\ save_report' = [outcome |-> o, level |-> save_level(o)]
            /\ afterClosed' = (afterClosed \/ closedSeen)
            /\ pc' = after_save(o)
     ELSE /\ pc' = "returned"
          /\ UNCHANGED <<faults, closed, saved, afterClosed, save_clicks, save_report>>
  /\ UNCHANGED <<inputs, aside, prelude, modal, didUpload, grid, stale, rows_info, i, success_count, failure_count,
                 skipped_count, postback_occurred, rescan_count, did_postback,
                 retry_rows, exit_code, exit_reason, didDelete, didSelect, selections, didHours, didProject, projCommitted, countedFilled,
                 staleUse, capHit, selectOnAbsence, closedSeen, unrecorded>>

\* ------------------------------------------------------------------ main
\* After fill_all_hours returns: the summary, the final screenshot (which
\* raises into `except Exception` -> sys.exit(1)), and the normal end.
MainSummary ==
  /\ pc = "returned"
  /\ \E o \in CallOutcomes :
       /\ faults' = FaultsAfter(o)
       /\ closed' = ClosedAfter(o)
       /\ exit_code' = IF o = "ok" THEN 0 ELSE main_exit_code("Exception")
       /\ exit_reason' = IF o = "ok" THEN "completed" ELSE "Exception"
  /\ pc' = "exited"
  /\ UNCHANGED <<inputs, aside, prelude, grid, stale, saved, rows_info, i, success_count, failure_count,
                 skipped_count, postback_occurred, rescan_count, did_postback,
                 retry_rows, history>>

\* ------------------------------------------- select_workdays_in_calendar
\* The clicks of the selection phase.  ds_target is the month and year of
\* workdays[0], ds_now the date of the run, ds_workdays the days of the
\* workdays; whether a control is found on the page is the portal's choice.
DsMonths == {1, 2}
DsYears == {2025, 2026}
DsDays == {1, 2}

\* viewed_month and viewed_year of an empty list of workdays (None).
NoMonth == <<0, 0>>

Click(kind, day) == [kind |-> kind, day |-> day]

\* is_current_month comparing the months only.
is_current_month_any_year == ds_target[1] = ds_now.month

is_current_month == ds_target[1] = ds_now.month /\ ds_target[2] = ds_now.year

DaySelectInit ==
  /\ ds_pc = "start"
  /\ ds_workdays \in {sorted(S) : S \in SUBSET DsDays}
  /\ ds_target \in (IF ds_workdays = <<>> THEN {NoMonth} ELSE DsMonths \X DsYears)
  /\ ds_now \in [month : DsMonths, year : DsYears, day : DsDays]
  /\ ds_k = 0
  /\ ds_clicks = <<>>
  /\ MainIdle
  /\ ProjectFillIdle
  /\ ShellIdle

\* The ">>" button: clicked when found, else the fallback clicks the days.
DsSelectAll ==
  /\ ds_pc = "start"
  /\ \E found \in BOOLEAN :
       IF found
       THEN /\ ds_clicks' = Append(ds_clicks, Click("select_all", 0))
            /\ ds_pc' = "reclick"
            /\ UNCHANGED ds_k
       ELSE /\ ds_pc' = "fallback"
            /\ ds_k' = 1
            /\ UNCHANGED ds_clicks
  /\ UNCHANGED <<main_vars, projectfill, shell, ds_target, ds_now, ds_workdays>>

\* After ">>": today's cell is clicked again when is_current_month and the
\* cell is found.
DsReclickToday ==
  /\ ds_pc = "reclick"
  /\ IF is_current_month
     THEN \E today_cell \in BOOLEAN :
            ds_clicks' = IF today_cell THEN Append(ds_clicks, Click("day", ds_now.day))
                         ELSE ds_clicks
     ELSE UNCHANGED ds_clicks
  /\ ds_pc' = "days_selected"
  /\ UNCHANGED <<main_vars, projectfill, shell, ds_target, ds_now, ds_workdays, ds_k>>

\* The fallback: one click for each workday whose cell is found.
DsFallbackDay ==
  /\ ds_pc = "fallback"
  /\ IF ds_k <= Len(ds_workdays)
     THEN /\ \E day_cell \in BOOLEAN :
               ds_clicks' = IF day_cell
                            THEN Append(ds_clicks, Click("day", ds_workdays[ds_k]))
                            ELSE ds_clicks
          /\ ds_k' = ds_k + 1
          /\ UNCHANGED ds_pc
     ELSE /\ ds_pc' = "days_selected"
          /\ UNCHANGED <<ds_clicks, ds_k>>
  /\ UNCHANGED <<main_vars, projectfill, shell, ds_target, ds_now, ds_workdays>>

\* The "Days selected" button.
DsDaysSelected ==
  /\ ds_pc = "days_selected"
  /\ \E found \in BOOLEAN :
       ds_clicks' = IF found THEN Append(ds_clicks, Click("days_selected", 0)) ELSE ds_clicks
  /\ ds_pc' = "done"
  /\ UNCHANGED <<main_vars, projectfill, shell, ds_target, ds_now, ds_workdays, ds_k>>

DaySelectNext == DsSelectAll \/ DsReclickToday \/ DsFallbackDay \/ DsDaysSelected

DaySelectSpec == DaySelectInit /\ [][DaySelectNext]_vars

\* ------------------------------------------------------ fill_project_field
\* The project loop of pass 2 at the grain of fill_project_field: the rows
\* pass 2 visits, the type-and-wait attempts of each call, the list the
\* portal shows at each attempt, and the retry of the rows that returned
\* False.  Texts are sequences of digits; an item is its item_text (the
\* stripped inner text of the li).
PfN == 2
PfRowIds == 1..PfN
Digits == {1, 2}
Texts == {<<a>> : a \in Digits} \cup {<<a, b>> : a, b \in Digits}
ItemLists == {<<>>} \cup {<<t>> : t \in Texts} \cup {<<t, u>> : t, u \in Texts}
Codes == {<<1>>, <<1, 2>>}

\* range(4)
MaxAttemptsFour == 3 + 1

\* for attempt in range(3)
MaxAttempts == 3

\* item_text.startswith(project_code)
startswith(t, c) == Len(c) <= Len(t) /\ SubSeq(t, 1, Len(c)) = c

\* project_code in item_text
code_in(c, t) == \E k \in 1..Len(t) : k + Len(c) - 1 <= Len(t) /\ SubSeq(t, k, k + Len(c) - 1) = c

\* The choice of the item without the startswith scan.
matched_item_by_containment(items, c) ==
  LET ct == {k \in 1..Len(items) : code_in(c, items[k])} IN
  IF ct # {} THEN CHOOSE k \in ct : \A j \in ct : k <= j
  ELSE IF Len(items) > 0 THEN 1 ELSE 0

\* The index of matched_item in items, 0 for None.
matched_item(items, c) ==
  LET sw == {k \in 1..Len(items) : startswith(items[k], c)}
      ct == {k \in 1..Len(items) : code_in(c, items[k])}
  IN IF sw # {} THEN CHOOSE k \in sw : \A j \in sw : k <= j
     ELSE IF ct # {} THEN CHOOSE k \in ct : \A j \in ct : k <= j
     ELSE IF Len(items) > 0 THEN 1 ELSE 0

\* One call of fill_project_field: the loop it is called from, the rows
\* the main loop had passed, the number of type-and-wait attempts, and the
\* result: "selected" returns True; "fallback", "raised" and "no_input"
\* return False.
Call(phase, passed) == [phase |-> phase, passed |-> passed, typed |-> 0, result |-> "running"]

returned_false(c) == c.result \in {"fallback", "raised", "no_input"}

ProjectFillInit ==
  /\ pf_pc = "loop"
  /\ pf_rows \in [PfRowIds -> [needs : BOOLEAN, hasProjectInput : BOOLEAN]]
  /\ pf_code \in Codes
  /\ pf_i = 1
  /\ pf_retry = <<>>
  /\ pf_cur = 0
  /\ pf_ret = "loop"
  /\ pf_attempt = 0
  /\ pf_calls = [r \in PfRowIds |-> <<>>]
  /\ pf_seen = <<>>
  /\ pf_clicks = <<>>
  /\ pf_closed = FALSE
  /\ MainIdle
  /\ DaySelectIdle
  /\ ShellIdle

\* The call of fill_project_field on row r: without a project input it
\* returns False at once, else the attempts begin.
StartCall(r, phase, calls) ==
  /\ pf_cur' = r
  /\ pf_ret' = phase
  /\ pf_attempt' = 0
  /\ pf_seen' = <<>>
  /\ pf_clicks' = <<>>
  /\ pf_calls' = [calls EXCEPT ![r] = Append(@, Call(phase, pf_i - 1))]

\* The return of the call to its caller: the main loop appends the row to
\* rows_needing_project_retry on False and goes on; the retry loop goes on.
Return(result, typed) ==
  /\ pf_calls' = [pf_calls EXCEPT ![pf_cur][Len(pf_calls[pf_cur])] =
                     [@ EXCEPT !.result = result, !.typed = typed]]
  /\ IF pf_ret = "loop"
     THEN /\ pf_retry' = IF result = "selected" THEN pf_retry ELSE Append(pf_retry, pf_cur)
          /\ pf_i' = pf_i + 1
          /\ pf_pc' = "loop"
     ELSE /\ pf_retry' = Tail(pf_retry)
          /\ pf_pc' = "retry"
          /\ UNCHANGED pf_i

CurrentCall == pf_calls[pf_cur][Len(pf_calls[pf_cur])]

\* One row of the loop of pass 2.  A closed page breaks the loop; the hours
\* write may raise (and the page may be closed then, which breaks the
\* loop); the project is filled when the row needs it.
PfLoopRow ==
  /\ pf_pc = "loop" /\ pf_i <= PfN
  /\ IF pf_closed
     THEN /\ pf_pc' = "retry"
          /\ UNCHANGED <<pf_i, pf_cur, pf_ret, pf_attempt, pf_calls, pf_seen, pf_clicks, pf_closed>>
     ELSE \E hours \in {"ok", "raise", "close"} :
            IF hours # "ok"
            THEN /\ pf_closed' = (hours = "close")
                 /\ IF hours = "close" THEN pf_pc' = "retry" /\ UNCHANGED pf_i
                    ELSE pf_i' = pf_i + 1 /\ UNCHANGED pf_pc
                 /\ UNCHANGED <<pf_cur, pf_ret, pf_attempt, pf_calls, pf_seen, pf_clicks>>
            ELSE IF ~pf_rows[pf_i].needs
            THEN /\ pf_i' = pf_i + 1
                 /\ UNCHANGED <<pf_pc, pf_cur, pf_ret, pf_attempt, pf_calls, pf_seen, pf_clicks, pf_closed>>
            ELSE /\ StartCall(pf_i, "loop", pf_calls)
                 /\ pf_pc' = "attempt"
                 /\ UNCHANGED <<pf_i, pf_closed>>
  /\ UNCHANGED <<main_vars, dayselect, shell, pf_rows, pf_code, pf_retry>>

\* The row has no project input: return False before the try.
PfNoInput ==
  /\ pf_pc = "attempt" /\ CurrentCall.result = "running"
  /\ ~pf_rows[pf_cur].hasProjectInput
  /\ Return("no_input", 0)
  /\ UNCHANGED <<main_vars, dayselect, shell, pf_rows, pf_code, pf_cur, pf_ret, pf_attempt, pf_seen,
                 pf_clicks, pf_closed>>

\* One attempt: type the code, wait, look for a visible list, choose the
\* item and click it.  A call of the page may raise before the typing
\* (always, on a closed page) or after it; the page may close.
PfAttempt ==
  /\ pf_pc = "attempt" /\ pf_rows[pf_cur].hasProjectInput
  /\ pf_attempt < MaxAttempts
  /\ LET typed == CurrentCall.typed IN
     \/ /\ Return("raised", typed)
        /\ \E cl \in BOOLEAN : pf_closed' = (pf_closed \/ cl)
        /\ UNCHANGED <<pf_attempt, pf_seen, pf_clicks>>
     \/ /\ ~pf_closed
        /\ Return("raised", typed + 1)
        /\ UNCHANGED <<pf_attempt, pf_seen, pf_clicks, pf_closed>>
     \/ \* no visible list
        /\ ~pf_closed
        /\ pf_attempt' = pf_attempt + 1
        /\ pf_calls' = [pf_calls EXCEPT ![pf_cur][Len(pf_calls[pf_cur])].typed = typed + 1]
        /\ UNCHANGED <<pf_pc, pf_i, pf_retry, pf_seen, pf_clicks, pf_closed>>
     \/ \* a visible list
        /\ ~pf_closed
        /\ \E items \in ItemLists :
             LET m == matched_item(items, pf_code) IN
             /\ pf_seen' = Append(pf_seen, items)
             /\ IF m = 0
                THEN /\ pf_attempt' = pf_attempt + 1
                     /\ pf_calls' = [pf_calls EXCEPT
                                       ![pf_cur][Len(pf_calls[pf_cur])].typed = typed + 1]
                     /\ UNCHANGED <<pf_pc, pf_i, pf_retry, pf_clicks>>
                ELSE \E clicked \in BOOLEAN :
                       /\ pf_clicks' = IF clicked THEN Append(pf_clicks, m) ELSE pf_clicks
                       /\ Return(IF clicked THEN "selected" ELSE "raised", typed + 1)
                       /\ UNCHANGED pf_attempt
        /\ UNCHANGED pf_closed
  /\ UNCHANGED <<main_vars, dayselect, shell, pf_rows, pf_code, pf_cur, pf_ret>>

\* After the attempts: the value is set by script and the call returns
\* False (also when the script raises).
PfFallback ==
  /\ pf_pc = "attempt" /\ pf_rows[pf_cur].hasProjectInput
  /\ pf_attempt >= MaxAttempts
  /\ \E o \in {"fallback", "raised"} : Return(o, CurrentCall.typed)
  /\ UNCHANGED <<main_vars, dayselect, shell, pf_rows, pf_code, pf_cur, pf_ret, pf_attempt, pf_seen,
                 pf_clicks, pf_closed>>

\* The end of the loop of pass 2.
PfLoopEnd ==
  /\ pf_pc = "loop" /\ pf_i > PfN
  /\ pf_pc' = "retry"
  /\ UNCHANGED <<main_vars, dayselect, shell, pf_rows, pf_code, pf_i, pf_retry, pf_cur, pf_ret,
                 pf_attempt, pf_calls, pf_seen, pf_clicks, pf_closed>>

\* The retry loop: one call for each row of rows_needing_project_retry.
PfRetryRow ==
  /\ pf_pc = "retry" /\ pf_retry # <<>>
  /\ StartCall(Head(pf_retry), "retry", pf_calls)
  /\ pf_pc' = "attempt"
  /\ UNCHANGED <<main_vars, dayselect, shell, pf_rows, pf_code, pf_i, pf_retry, pf_closed>>

PfRetryEnd ==
  /\ pf_pc = "retry" /\ pf_retry = <<>>
  /\ pf_pc' = "done"
  /\ UNCHANGED <<main_vars, dayselect, shell, pf_rows, pf_code, pf_i, pf_retry, pf_cur, pf_ret,
                 pf_attempt, pf_calls, pf_seen, pf_clicks, pf_closed>>

ProjectFillNext ==
  PfLoopRow \/ PfNoInput \/ PfAttempt \/ PfFallback \/ PfLoopEnd \/ PfRetryRow \/ PfRetryEnd

ProjectFillSpec == ProjectFillInit /\ [][ProjectFillNext]_vars

\* ------------------------------------------------- hilan_interactive.py
\* The interactive shell: main's loop of collect_params, the summary and
\* the confirmation prompt, and the edit screen.  What the user types is
\* the environment's choice.
MaxCollections == 2
DayFields == {"vacation", "sick_days", "rd_days", "present_dates"}

\* The day texts typed: "", "1", "1-3" and "4-5".
DayTexts == {{}, {<<1, 1>>}, {<<1, 3>>}, {<<4, 5>>}}
ConfirmInputs == {"", "r", "run", "R", "e", "edit", "q", "quit", "x"}

\* ask(): an empty input returns the default (and "" when there is none).
ask(value, default, empty) == IF value = empty THEN default ELSE value

\* str.lower()
lower(t) == IF t = "R" THEN "r" ELSE t

\* overlap of two day texts, as the checks of edit_params compute it
overlap(a, b) == a # {} /\ b # {} /\ parse_day_ranges(a) \cap parse_day_ranges(b) # {}

\* The checks of Done without the one of present dates against RD days.
done_valid_without_rd(p) ==
  /\ ~overlap(p.vacation, p.sick_days)
  /\ ~overlap(p.rd_days, p.vacation)
  /\ ~overlap(p.rd_days, p.sick_days)
  /\ ~overlap(p.present_dates, p.vacation)
  /\ ~overlap(p.present_dates, p.sick_days)

\* The checks of Done (the project is required wherever it is asked, so
\* it is never empty).
done_valid(p) ==
  /\ ~overlap(p.vacation, p.sick_days)
  /\ ~overlap(p.rd_days, p.vacation)
  /\ ~overlap(p.rd_days, p.sick_days)
  /\ ~overlap(p.present_dates, p.vacation)
  /\ ~overlap(p.present_dates, p.sick_days)
  /\ ~overlap(p.present_dates, p.rd_days)

\* The certificate asked with the sick days: required (and asked until the
\* file exists) when the text is not empty and names more than 2 days.
sick_file_for(sick) ==
  IF sick # {} /\ Cardinality(parse_day_ranges(sick)) > 2 THEN "cert" ELSE ""

\* The order asked with the RD days: required when the text is not empty.
rd_file_for(rd) == IF rd # {} THEN "order" ELSE ""

ShellInit ==
  /\ sh_pc = "collect"
  /\ sh_params = Params({}, {}, "", {}, "", {})
  /\ sh_ret = "collect"
  /\ sh_choice = ""
  /\ sh_launched = FALSE
  /\ sh_collections = 0
  /\ sh_edited = Params({}, {}, "", {}, "", {})
  /\ sh_after_edit = FALSE
  /\ sh_field = "none"
  /\ sh_input_empty = FALSE
  /\ MainIdle
  /\ DaySelectIdle
  /\ ProjectFillIdle

\* collect_params: every step asked from scratch, then the edit screen;
\* None (and main exits) when the password prompt is interrupted.
ShCollect ==
  /\ sh_pc = "collect"
  /\ \/ /\ sh_pc' = "exited"
        /\ UNCHANGED <<sh_params, sh_collections>>
     \/ /\ \E v, sk, rd \in DayTexts :
             sh_params' = Params(v, sk, sick_file_for(sk), rd, rd_file_for(rd), {})
        /\ sh_collections' = sh_collections + 1
        /\ sh_pc' = "edit"
  /\ sh_ret' = "collect"
  /\ sh_field' = "none"
  /\ sh_input_empty' = FALSE
  /\ UNCHANGED <<main_vars, dayselect, projectfill, sh_choice, sh_launched, sh_edited, sh_after_edit>>

\* edit_params, options 9 to 12: the text is asked with the current value
\* as the default; the files are asked again with the sick and RD days.
ShEditDays ==
  /\ sh_pc = "edit"
  /\ \E f \in DayFields, typed \in DayTexts :
       LET value == ask(typed, sh_params[f], {})
           p1 == [sh_params EXCEPT ![f] = value]
       IN /\ sh_params' = IF f = "sick_days" THEN [p1 EXCEPT !.sick_file = sick_file_for(value)]
                           ELSE IF f = "rd_days" THEN [p1 EXCEPT !.rd_file = rd_file_for(value)]
                           ELSE p1
          /\ sh_field' = f
          /\ sh_input_empty' = (typed = {})
  /\ UNCHANGED <<main_vars, dayselect, projectfill, sh_pc, sh_ret, sh_choice, sh_launched,
                 sh_collections, sh_edited, sh_after_edit>>

\* edit_params, Done: the screen is left when the checks pass (when one
\* fails a message is printed and the screen stays).  collect_params then
\* returns to main, which shows the summary; the call made by main's Edit
\* returns to main's `continue`, the top of the loop.
ShEditDone ==
  /\ sh_pc = "edit"
  /\ done_valid(sh_params)
  /\ IF sh_ret = "collect"
     THEN /\ sh_pc' = "confirm"
          /\ UNCHANGED <<sh_edited, sh_after_edit>>
     ELSE /\ sh_pc' = "collect"
          /\ sh_edited' = sh_params
          /\ sh_after_edit' = TRUE
  /\ UNCHANGED <<main_vars, dayselect, projectfill, sh_params, sh_ret, sh_choice, sh_launched,
                 sh_collections, sh_field, sh_input_empty>>

\* main: the confirmation prompt.  q quits, e edits, and every other
\* choice leaves the loop and runs hilan_filler.py with build_command(params).
ShConfirm ==
  /\ sh_pc = "confirm"
  /\ \E typed \in ConfirmInputs :
       LET choice == lower(ask(typed, "r", "")) IN
       /\ sh_choice' = typed
       /\ IF choice \in {"q", "quit"}
          THEN sh_pc' = "exited" /\ UNCHANGED <<sh_ret, sh_launched>>
          ELSE IF choice \in {"e", "edit"}
          THEN /\ sh_collections < MaxCollections
               /\ sh_pc' = "edit" /\ sh_ret' = "main" /\ UNCHANGED sh_launched
          ELSE sh_pc' = "running" /\ sh_launched' = TRUE /\ UNCHANGED sh_ret
  /\ UNCHANGED <<main_vars, dayselect, projectfill, sh_params, sh_collections, sh_edited,
                 sh_after_edit, sh_field, sh_input_empty>>

ShellNext == ShCollect \/ ShEditDays \/ ShEditDone \/ ShConfirm

ShellSpec == ShellInit /\ [][ShellNext]_vars

Next ==
  \/ ParseArgs
  \/ MainStart
  \/ Login
  \/ Navigate
  \/ ReadGrid
  \/ Scan1FriSat
  \/ Scan1NotWorkday
  \/ Scan1Vacation
  \/ Scan1Sick
  \/ Scan1Symbol
  \/ RescanLoop
  \/ RescanSkip
  \/ RescanVacation
  \/ RescanSick
  \/ RescanSymbol
  \/ FinalReread
  \/ Pass2Skip
  \/ Pass2Closed
  \/ Pass2Row
  \/ RetryRow
  \/ Save
  \/ MainSummary

Spec == Init /\ [][Next]_vars

\* ======================================================================
\* Properties
\* ======================================================================
Done == pc \in {"returned", "exited"}

\* C1: once a state-changing action (delete, symbol selection) has
\* completed, no row identifier of a snapshot read before it is used again:
\* every later portal action uses identifiers of a read made after the most
\* recent state-changing action.
C1_NoStaleRowUse == ~staleUse

\* C2: if the rescan loop ends on its cap of 50 rescans while the last scan
\* still performed an action, the run does not fill hours or projects and
\* does not save.
C2_CapIsFatal == capHit => (didHours = {} /\ didProject = {} /\ saved = 0)

\* C3: for every attendance day whose row showed an absence symbol, a delete
\* of that day's row comes before any hours or project value is written
\* for it; hours are never written to it without a preceding delete.
C3_DeleteBeforeFill ==
  \A d \in didHours \cup didProject :
    (IsAttendanceDay(d) /\ initial_grid[d].sym \in absence_symbols) => d \in didDelete

\* C4: no presence / w.home symbol selection is applied to an attendance
\* workday row whose current symbol is an absence symbol; the only
\* state-changing action on such a row is delete.
C4_NoSelectOnAbsenceRow == ~selectOnAbsence

CleanRun ==
  faults = MaxFaults /\ ~closed /\ locked = {} /\ ~capHit /\ shown = "target"

\* C6: every future-dated attendance workday whose symbol or project
\* mismatches the desired one receives the correction, whatever its hours:
\* at the end of a clean run its presence/remote symbol is the expected one
\* and project selection was performed for it.
C6_FutureDayCorrected ==
  (pc = "returned" /\ rows_info # <<>> /\ CleanRun) =>
    \A d \in Days :
      (IsAttendanceDay(d) /\ is_future_day(d) /\ rows_info[d].hasIn /\ rows_info[d].hasSel) =>
        /\ rows_info[d].sym \in {"0", "15"} => rows_info[d].sym = expected_symbol(d)
        /\ project_needs_fill(rows_info[d]) => d \in didProject

\* C7: save is invoked only in runs in which at least one change was
\* applied to the grid (a delete, a symbol selection, an hours write or a
\* project selection).
C7_SaveOnlyAfterChange ==
  saved > 0 => (didDelete \cup didSelect \cup didHours \cup didProject) # {}

\* C8: once the page is detected closed during the value-filling pass, no
\* further row interaction is issued (the project retry pass included) and
\* save is never invoked.
C8_AbortOnClosedPage == closedSeen => (~afterClosed /\ saved = 0)

\* C9: every failed attempt to transition or fill a day (a raise during the
\* action, a missing symbol control for a requested absence) is counted in
\* failure_count, in the first scan and in the rescans.
C9_FailuresRecorded == ~unrecorded

\* C10: if the run reports at least one failed day, the process exits with
\* a non-zero exit code.
C10_FailureExitsNonZero == (pc = "exited" /\ failure_count > 0) => exit_code # 0

\* No action of the run has touched the portal's grid.
NoPortalAction ==
  /\ didDelete = {} /\ didSelect = {} /\ didHours = {} /\ didProject = {}
  /\ saved = 0 /\ grid = initial_grid

\* C11: the exit code is 0 when the run completes or a dry run was asked
\* for, and a dry run never launches the browser nor acts on the portal; it
\* is 1 when the login is rejected, a timeout propagates or another
\* exception reaches main; after a rejected login there is no navigation to
\* the attendance page, no grid action and no save.
C11_ExitCodes ==
  /\ dry_run => (~launched /\ ~navigated /\ rows_info = <<>> /\ NoPortalAction)
  /\ login_rejected => (~navigated /\ rows_info = <<>> /\ NoPortalAction)
  /\ pc = "exited" =>
       /\ exit_reason \in {"completed", "dry_run"} => exit_code = 0
       /\ login_rejected => exit_code = 1
       /\ exit_reason \in {"RuntimeError", "PlaywrightTimeoutError", "Exception"} =>
            exit_code = 1

\* C11 witness: the run has ended on a rejected login, with exit code 1.
C11_Witness ==
  pc = "exited" /\ login_rejected /\ launched /\ exit_code = 1

\* The target days of the month: Sunday to Thursday, holidays excluded.
IsTargetDay(d) ==
  DayName(d) \in {"Sun", "Mon", "Tue", "Wed", "Thu"} /\ d \notin holiday_dates

TargetDays == {d \in 1..num_days : IsTargetDay(d)}

\* The desired state of a day's row: the requested absence symbol and no
\* hours on a vacation / sick workday; the expected presence symbol, the
\* requested hours unless the day is in the future and the project on an
\* attendance workday; no data on a Fri/Sat row.
AtDesiredState(d, row) ==
  IF IsFriSat(d) THEN row.sym \in {"", "15"} /\ row.entry = "" /\ row.exit = ""
  ELSE IF ~IsTargetDay(d) THEN TRUE
  ELSE IF d \in vacation_days THEN row.sym = "2" /\ row.entry = "" /\ row.exit = ""
  ELSE IF d \in sick_days
  THEN /\ row.sym = (IF Cardinality(sick_days) <= 2 THEN "5" ELSE "6")
       /\ row.entry = "" /\ row.exit = ""
  ELSE /\ row.sym = (IF Weekday(d) \in present_weekdays \/ d \in present_dates
                     THEN "0" ELSE "15")
       /\ d <= today => (row.entry = entry_time /\ row.exit = exit_time)
       /\ project # "" => row.proj = project

\* The grid shown is the target month's and every row is at its desired state.
Converged == shown = "target" /\ \A d \in Days : AtDesiredState(d, initial_grid[d])

\* C12: when every row of the grid is at its desired state already, the run
\* performs no state-changing action, no hours or project write and no
\* save, counts nothing as applied or failed, and counts every workday row
\* as skipped.
C12_ConvergedRunSkips ==
  \/ /\ NoPortalAction
     /\ success_count = 0
     /\ rows_info # <<>> => failure_count = 0
     /\ (pc = "returned" /\ rows_info # <<>>) => skipped_count = Cardinality(TargetDays)
  \/ ~Converged

\* C12 witness: a run over a converged grid with a vacation day and a
\* project has gone through both passes.
C12_Witness ==
  /\ Converged /\ pc = "returned" /\ rows_info # <<>>
  /\ vacation_days # {} /\ project # ""
  /\ \E d \in Days : IsAttendanceDay(d)
  /\ skipped_count = Cardinality(TargetDays)

RequestSets ==
  [opt \in {"--vacation", "--sick-days", "--rd-days", "--present-dates"} |->
     CASE opt = "--vacation" -> vacation_days
       [] opt = "--sick-days" -> sick_days
       [] opt = "--rd-days" -> rd_days
       [] OTHER -> present_dates]

OverlappingPairs ==
  {pair \in (DOMAIN RequestSets) \X (DOMAIN RequestSets) :
     pair[1] # pair[2] /\ RequestSets[pair[1]] \cap RequestSets[pair[2]] # {}}

\* C14: when two of the sets vacation, sick, reserve-duty and presentDates
\* share a day, the run is rejected before execution with an error that
\* names two conflicting sets and lists exactly their shared days.
C14_OverlapRejected ==
  (pc # "parse" /\ OverlappingPairs # {}) =>
    /\ pc = "exited" /\ ~launched
    /\ \E pair \in OverlappingPairs :
         /\ {error.a, error.b} = {pair[1], pair[2]}
         /\ error.days = sorted(RequestSets[pair[1]] \cap RequestSets[pair[2]])

\* C15: reserve-duty days passed with their attachment, on a command line
\* that is valid otherwise, are accepted by the filler.
C15_ReserveDutyAccepted ==
  (pc # "parse" /\ rd_days # {} /\ rd_file /\ OverlappingPairs = {}
     /\ (Cardinality(sick_days) >= 3 => sick_file)) =>
    error = NoError

\* C16: every day in vacationDays or sickDays that has a row, Fri/Sat and
\* holidays included, shows the requested absence symbol at the end of a
\* clean run.
C16_RequestedAbsenceOnAnyDay ==
  (pc = "returned" /\ rows_info # <<>> /\ CleanRun) =>
    \A d \in (vacation_days \cup sick_days) \cap Days :
      grid[d].hasSel =>
        grid[d].sym = (IF d \in vacation_days THEN "2"
                       ELSE IF Cardinality(sick_days) <= 2 THEN "5" ELSE "6")

\* The weekday names of the --present-days numbers (1=Sun .. 5=Thu).
UserDayNames == <<"Sun", "Mon", "Tue", "Wed", "Thu">>

OfficeDay(d) ==
  DayName(d) \in {UserDayNames[n] : n \in present_days} \/ d \in present_dates

\* C17: for a workday in neither the vacation nor the sick set, the expected
\* symbol is office presence iff its weekday is one of presentWeekdays or
\* its day of month is in presentDates, and remote otherwise; the first scan
\* and the rescans compute the same symbol, so every selection made for such
\* a day, and the symbol it shows at the end of a clean run, is that one.
C17_ExpectedSymbol ==
  /\ \A d \in Days :
       IsAttendanceDay(d) =>
         /\ expected_symbol(d) = (IF OfficeDay(d) THEN "0" ELSE "15")
         /\ expected_symbol_rescan(d) = expected_symbol(d)
  /\ \A sel \in selections :
       IsAttendanceDay(sel[1]) => sel[2] = (IF OfficeDay(sel[1]) THEN "0" ELSE "15")
  /\ (pc = "returned" /\ rows_info # <<>> /\ CleanRun) =>
       \A d \in Days :
         (IsAttendanceDay(d) /\ grid[d].hasSel /\ grid[d].sym # "") =>
           grid[d].sym = (IF OfficeDay(d) THEN "0" ELSE "15")

\* C17 witness: a run has ended in which the first scan set a day to remote
\* and a rescan set a day that is an office day by its weekday only to
\* office presence.
C17_Witness ==
  /\ pc = "returned" /\ present_days # {} /\ present_dates = {}
  /\ \E s1, s2 \in selections :
       /\ s1[2] = "15" /\ s1[3] = "scan1" /\ IsAttendanceDay(s1[1])
       /\ s2[2] = "0" /\ s2[3] = "rescan" /\ IsAttendanceDay(s2[1])

\* C18: get_workdays returns, in ascending order and without duplicates,
\* exactly the days of the month that fall on Sunday to Thursday and are not
\* holidays, whatever today's date is (stated of the list main holds when
\* get_workdays has returned).
C18_Workdays ==
  (pc = "login" \/ exit_reason \in {"no_workdays", "dry_run"}) =>
    /\ \A k \in 1..(Len(workdays) - 1) : workdays[k] < workdays[k + 1]
    /\ {workdays[k] : k \in 1..Len(workdays)} =
         {d \in 1..num_days :
            /\ DayName(d) \in {"Sun", "Mon", "Tue", "Wed", "Thu"}
            /\ d \notin holiday_dates}

\* C18 witness: the workdays of a 31-day month that starts on a Friday and
\* has holidays were computed on the first of the month, days after today
\* included.
C18_Witness ==
  /\ pc = "exited" /\ exit_reason = "dry_run"
  /\ num_days = 31 /\ first_weekday = 4 /\ holiday_dates = {7, 8, 9, 10} /\ today = 1
  /\ Len(workdays) >= 15
  /\ \E k \in 1..Len(workdays) : workdays[k] > today

\* C19: each date contributes at most one count to applied or failed: at
\* the end of a run success_count + failure_count is at most the number of
\* target days.
C19_PerDateTally ==
  Done => success_count + failure_count <= Cardinality(TargetDays)

\* C20: a day whose project selection never returned True (it ended in the
\* direct-write fallback and no retry committed it) is not counted as a
\* success.
C20_FallbackNotSuccess ==
  pc = "returned" =>
    \A d \in countedFilled : d \in didProject => d \in projCommitted

\* C21: a day-set option with a part that names a day outside the target
\* month (0, or past the month's last day), or with a reversed range, is
\* rejected as a configuration error before any browser action: the run
\* ends in parse_args with an error and the browser is never launched.
BadPart(p) == p[1] > p[2] \/ p[1] < 1 \/ p[2] > num_days

C21_BadDaySetRejected ==
  (pc # "parse" /\ \E p \in vacation_parts : BadPart(p)) =>
    (error # NoError /\ exit_reason = "usage" /\ ~launched)

C23_Pass1Bounded ==
  /\ [](rescan_count <= 50 /\ (pc \in {"scan1", "rescan"} => i \in 1..NDays))
  /\ [][(pc \in {"scan1", "rescan"} /\ pc' = pc) => i' = i + 1]_vars

C23_Witness == pc = "final" /\ rescan_count = 50 /\ capHit

\* A run of the status-changing pass that ended without reaching the cap,
\* on the target month, with no portal call failing and no locked day.
Pass1EndedClean ==
  /\ pc = "pass2" /\ ~capHit
  /\ shown = "target" /\ faults = MaxFaults /\ locked = {}

OffDay(d) == DayName(d) \in {"Fri", "Sat"} \/ d \in holiday_dates

StrayRow(row) == has_hours(row) \/ row.sym \notin {"", "15"}

\* C24: when the status-changing pass has ended without hitting the cap, no
\* Fri/Sat or holiday row still carries hours or a non-default symbol.
C24_NoStrayOffDayRow ==
  Pass1EndedClean => \A d \in Days : OffDay(d) => ~StrayRow(grid[d])

\* C25: every day the run switched to sick with certificate ("6") has had
\* the certificate upload performed for its row, whether the switch was
\* made in the first scan or in a rescan.
C25_CertificateUploaded ==
  \A sel \in selections : sel[2] = "6" => sel[1] \in didUpload

\* C26: a row the engine has set to vacation or sick had its entry/exit
\* hours and its project cleared with the selection, in the first scan and
\* in the rescans alike: it shows neither hours nor a project.
C26_AbsenceSelectionClearsRow ==
  \A sel \in selections :
    (sel[2] \in absence_symbols /\ sel[1] \notin locked) =>
      (~has_hours(grid[sel[1]]) /\ grid[sel[1]].proj = "")

\* C27: when the status-changing pass has ended without hitting the cap and
\* without a failed action, every attendance workday whose row has a symbol
\* selector shows the expected presence symbol (presence on an office day,
\* w.home otherwise), whatever the row showed before.
C27_PresenceSymbolShown ==
  Pass1EndedClean =>
    \A d \in Days :
      (IsAttendanceDay(d) /\ grid[d].hasSel) =>
        grid[d].sym = (IF OfficeDay(d) THEN "0" ELSE "15")

\* C28: the value-filling pass never writes hours into a row whose symbol,
\* in the snapshot the pass uses, is an absence symbol.
C28_NoHoursOnAbsenceSnapshot ==
  \A d \in didHours : rows_info[d].sym \notin absence_symbols

\* C29: every grid mutation targets a row whose date belongs to the target
\* month and year: when the portal is not showing the target month at the
\* start of the fill, no row is deleted, selected or written.
C29_OnlyTargetMonthMutated ==
  shown # "target" =>
    /\ didDelete = {} /\ didSelect = {} /\ didHours = {} /\ didProject = {}
    /\ grid = initial_grid

\* C30: in the value-filling pass, project selection is performed for an
\* attendance day exactly when the project its row stores is not the
\* desired project; a row storing another project is never taken as set.
C30_ProjectSelectedIffMismatch ==
  (pc = "returned" /\ rows_info # <<>> /\ CleanRun /\ project # "") =>
    \A d \in Days :
      (IsAttendanceDay(d) /\ rows_info[d].hasIn) =>
        (d \in didProject <=> rows_info[d].proj # project)

\* C31: the value-filling pass (pass 2 and the project retry) never changes
\* the status symbol of a row, and a row it wrote hours into while the
\* row's project was the desired one already got no project selection.
C31_Pass2KeepsSymbolAndProject ==
  /\ [](\A d \in didHours :
         (project # "" /\ rows_info[d].proj = project) => d \notin didProject)
  /\ [][(pc \in {"pass2", "retry"}) => (\A d \in Days : grid'[d].sym = grid[d].sym)]_vars

C31_Witness ==
  /\ pc = "returned" /\ project # ""
  /\ \E d \in didHours : rows_info[d].proj = project /\ d \notin didProject
  /\ \E d \in Days : rows_info[d].sym \in {"0", "15"}

\* C32: a Friday/Saturday row is deleted only if it carried hours or a
\* symbol other than empty / remote; a Friday/Saturday row with no hours and
\* an empty or remote symbol is never acted on and stays as it was.
C32_WeekendRowDeletedOnlyWithData ==
  \A d \in Days :
    IsFriSat(d) =>
      /\ d \notin didSelect /\ d \notin didHours /\ d \notin didProject
      /\ d \in didDelete => StrayRow(initial_grid[d])
      /\ ~StrayRow(initial_grid[d]) => grid[d] = initial_grid[d]

C32_Witness ==
  /\ pc = "returned" /\ success_count > 0
  /\ \E d \in Days :
       /\ IsFriSat(d) /\ initial_grid[d].sym = "15" /\ ~has_hours(initial_grid[d])
       /\ grid[d] = initial_grid[d]

\* C33: every state-changing action (row delete, symbol selection, hours
\* write) is issued after a modal check: no action is issued while no modal
\* check has been made since the page was opened or since the last action.
C33_ModalCheckedAroundActions == modal # "violated"

\* C36 (DaySelectSpec): a day cell clicked after the select-all click is
\* today's cell, and it is clicked only when the target month and year are
\* the current month and year: when another month is the target, no day
\* cell is clicked after select-all.
C36_ReclickOnlyInCurrentMonth ==
  \A k \in 1..Len(ds_clicks) :
    (ds_clicks[k].kind = "day" /\ \E j \in 1..(k - 1) : ds_clicks[j].kind = "select_all") =>
      /\ ds_target = <<ds_now.month, ds_now.year>>
      /\ ds_clicks[k].day = ds_now.day
      /\ \A j \in 1..Len(ds_clicks) : ds_clicks[j].kind = "day" => j = k

C36_Witness ==
  /\ ds_pc = "done"
  /\ ds_clicks = <<Click("select_all", 0), Click("day", ds_now.day), Click("days_selected", 0)>>

\* C34 (ProjectFillSpec): a call of fill_project_field types and waits at
\* most 3 times; a row is called once by the loop of pass 2 at most, and a
\* second time only by the retry loop, after the loop of pass 2 has ended
\* (having passed every row unless the page was closed), and only if the
\* first call returned False; when all is done every row whose first call
\* returned False has had exactly one more call, and no row a third.
C34_ThreeAttemptsOneRetry ==
  pf_pc # "idle" =>
    \A r \in PfRowIds :
      LET cs == pf_calls[r] IN
      /\ Len(cs) <= 2
      /\ \A k \in 1..Len(cs) : cs[k].typed <= 3
      /\ Len(cs) >= 1 => cs[1].phase = "loop"
      /\ Len(cs) = 2 => /\ cs[2].phase = "retry"
                        /\ returned_false(cs[1])
                        /\ (cs[2].passed = PfN \/ pf_closed)
      /\ (pf_pc = "done" /\ Len(cs) >= 1 /\ returned_false(cs[1])) => Len(cs) = 2

C34_Witness ==
  /\ pf_pc = "done" /\ ~pf_closed
  /\ Len(pf_calls[1]) = 2 /\ pf_calls[1][1].typed = 3 /\ pf_calls[1][1].result = "fallback"
  /\ pf_calls[1][2].result = "selected"
  /\ Len(pf_calls[2]) = 1 /\ pf_calls[2][1].result = "selected"

\* C35 (ProjectFillSpec): a call that saw a visible list with items, and in
\* which nothing raised, clicked exactly one item and returned True; the
\* item clicked is the first whose text starts with the code, or with no
\* such item the first whose text contains the code, or with no such item
\* the first item; and a call returns True only after such a click.
C35_OneItemClickedByPriority ==
  (pf_pc # "idle" /\ pf_cur # 0) =>
    LET c == CurrentCall
        listed == \E k \in 1..Len(pf_seen) : pf_seen[k] # <<>>
    IN
    /\ (c.result = "selected" \/ (listed /\ c.result # "raised")) =>
         /\ c.result = "selected"
         /\ Len(pf_clicks) = 1
         /\ pf_seen # <<>>
         /\ LET items == pf_seen[Len(pf_seen)]
                k == pf_clicks[1]
                starts(j) == startswith(items[j], pf_code)
                has(j) == code_in(pf_code, items[j])
                all == 1..Len(items)
            IN /\ k \in all
               /\ \/ starts(k) /\ \A j \in 1..(k - 1) : ~starts(j)
                  \/ (\A j \in all : ~starts(j)) /\ has(k) /\ \A j \in 1..(k - 1) : ~has(j)
                  \/ (\A j \in all : ~starts(j) /\ ~has(j)) /\ k = 1
    /\ c.result # "selected" => pf_clicks = <<>>

C35_Witness ==
  /\ pf_pc = "done" /\ pf_cur # 0 /\ pf_code = <<1>>
  /\ CurrentCall.result = "selected"
  /\ pf_seen = << <<>>, << <<2, 1>>, <<1, 2>> >> >>
  /\ pf_clicks = <<2>>

\* C37 (ShellSpec): when the edit screen has been left by Done, the
\* vacation, sick, reserve-duty and present-date sets are pairwise
\* disjoint, a sick set of 3 days or more has a sick file and a reserve-duty
\* set that is not empty has a reserve-duty file.
C37_DoneLeavesValidSets ==
  (sh_pc \in {"confirm", "running"} \/ (sh_pc = "collect" /\ sh_after_edit)) =>
    LET V == parse_day_ranges(sh_params.vacation)
        S == parse_day_ranges(sh_params.sick_days)
        R == parse_day_ranges(sh_params.rd_days)
        P == parse_day_ranges(sh_params.present_dates)
    IN /\ V \cap S = {} /\ V \cap R = {} /\ V \cap P = {}
       /\ S \cap R = {} /\ S \cap P = {} /\ R \cap P = {}
       /\ Cardinality(S) >= 3 => sh_params.sick_file # ""
       /\ R # {} => sh_params.rd_file # ""

C37_Witness ==
  /\ sh_pc = "confirm" /\ sh_field = "rd_days"
  /\ sh_params.vacation = {}
  /\ sh_params.sick_days = {<<1, 3>>} /\ sh_params.sick_file # ""
  /\ sh_params.present_dates = {}
  /\ sh_params.rd_days = {<<4, 5>>} /\ sh_params.rd_file # ""

\* C38 (ShellSpec): hilan_filler.py is launched only when the input at the
\* confirmation prompt was r, run (in any case) or empty.
C38_LaunchOnlyOnRun == sh_launched => sh_choice \in {"", "r", "run", "R"}

\* C39 (ShellSpec): after the user chose Edit at the confirmation prompt,
\* the parameters of the next summary and of the launch are the ones the
\* edit screen returned, and the collection has been made once.
C39_EditKeepsCollectedParams ==
  (sh_after_edit /\ sh_pc \in {"confirm", "running"}) =>
    sh_collections = 1 /\ sh_params = sh_edited

\* C40 (ShellSpec): after an empty input for a day-set field of the edit
\* screen, the field is empty.
C40_EmptyInputClearsDayField ==
  (sh_pc = "edit" /\ sh_field \in DayFields /\ sh_input_empty) => sh_params[sh_field] = {}

====
